---------------------------- MODULE Spec2Model ----------------------------
(***************************************************************************)
(* Dynamic RBAC backend: the permission resolver (User.getAllPermissions), *)
(* the authorization middleware (requirePermissions, requireRoles,         *)
(* requireOwnershipOrPermission), the account lockout state machine        *)
(* (login, incLoginAttempts, resetLoginAttempts) and the session validator *)
(* (authenticate).                                                         *)
(*                                                                         *)
(* The specifications that share the module:                               *)
(*   SpecSession    one stored principal, its security fields, a clock,    *)
(*                  and the login / authenticate / updateUser handlers;    *)
(*   SpecAuthz      a principal drawn with its role and override lists,    *)
(*                  and the three policy middlewares applied to it;        *)
(*   SpecRoleActive the same middlewares with roles active or not;         *)
(*   SpecOverrides  grant / revoke / remove of custom permissions;         *)
(*   SpecCatalog    permissions created and deleted while roles and        *)
(*                  overrides refer to them;                               *)
(*   SpecRoles      roles created, assigned and deleted while users are    *)
(*                  registered and created;                                *)
(*   SpecSessionPath   SpecSession with the routes made of a session       *)
(*                  middleware and a controller that resolves;             *)
(*   SpecLockout    the lockout cycle under fairness of the clock and of   *)
(*                  the owner's login;                                     *)
(*   SpecLogins     two failed logins on one account in flight together;   *)
(*   SpecRegistrations   registrations in flight together;                 *)
(*   SpecRoleRoutes, SpecOverrideRoutes, SpecUserRoutes                    *)
(*                  the role, override and user routes behind the session  *)
(*                  and the management gates, for a set of callers;        *)
(*   SpecFresh      requests of the holders of a role while the role and   *)
(*                  the overrides are changed.                             *)
(***************************************************************************)
EXTENDS Integers, Sequences, FiniteSets, TLC

VARIABLES
    role,           \* the principal's populated role document, or NoRole
    granted,        \* user.customPermissions.granted (list of permission ids)
    revoked,        \* user.customPermissions.revoked (list of permission ids)
    isActive,       \* user.isActive
    loginAttempts,  \* user.loginAttempts
    lockUntil,      \* user.lockUntil, NoLock when the field is absent
    now,            \* Date.now(), in minutes
    req,            \* the last request handled: the handler and its inputs
    out,            \* what the handler did with it: response, next(), req.* set
    permissionDocs, \* the Permission collection, by id
    roleDocs,       \* the Role collection, by id
    userDocs        \* the User collection, by id: the role reference

vars == <<role, granted, revoked, isActive, loginAttempts, lockUntil, now, req, out,
          permissionDocs, roleDocs, userDocs>>

---------------------------------------------------------------------------
\* Bounds of the model.

\* The clock runs from 0 to MaxTime minutes.
MaxTime == 20
\* Longest granted / revoked list drawn for a principal.
MaxOverrides == 2
\* Longest list of required permissions / allowed roles given to a policy.
MaxRequired == 2
\* Longest permissions array in the body of a user-override request.
MaxBody == 2
\* Longest granted / revoked list a user document is let grow to.
MaxList == 3
\* Longest permissions array in a request body while the catalog changes.
MaxCatalogBody == 1
\* The clock of the lockout cycle runs from 0 to MaxLiveTime: a lock can
\* expire, and a second lock can be set and expire.
MaxLiveTime == 36

---------------------------------------------------------------------------
\* Program constants.

\* parseInt(process.env.MAX_LOGIN_ATTEMPTS) || 5
MaxAttempts == 5
\* parseInt(process.env.LOCKOUT_TIME) || 15, minutes
LockTime == 15
\* lockUntil has no default: the field is absent until a lock is set.
NoLock == -1

\* The stored principal and an id no stored user has.
TheUser == "u1"
UnknownUser == "u9"
NoUser == "none"
\* The resources a request can target and the user each belongs to
\* (post.author); NoResource: the request names no resource.
Resources == {"post1", "post2"}
NoResource == "none"
ResourceOwner(r) == IF r = "post1" THEN TheUser ELSE "u2"
NoRole ==
    [name |-> "none", permissions |-> <<>>, isSystemRole |-> FALSE,
     isActive |-> FALSE, loaded |-> FALSE]

\* The permission catalog: ids and their unique names.
PermIds == {"p1", "p2", "p3"}
PermName(p) ==
    CASE p = "p1" -> "post.create"
      [] p = "p2" -> "post.read"
      [] p = "p3" -> "post.delete"
      [] p = "p4" -> "user.create"
      [] p = "p5" -> "role.update"
PermNames == {PermName(p) : p \in PermIds}
RoleNames == {"SuperAdmin", "Editor", "User"}

\* The three collections and their seeded content. An id is "free" until
\* a document is created with it and "deleted" afterwards: ObjectIds are
\* never issued twice.
Collections == <<permissionDocs, roleDocs, userDocs>>
RoleIds == {"r1", "r2", "r3"}
NoRoleId == "none"
UserIds == {TheUser, "u2", "u3"}
FreePermission == [state |-> "free", isSystemPermission |-> FALSE]
FreeRole ==
    [state |-> "free", name |-> "none", permissions |-> <<>>, isSystemRole |-> FALSE]
FreeUser == [state |-> "free", role |-> NoRoleId]
SeededPermissions ==
    [p \in PermIds |-> [state |-> "exists", isSystemPermission |-> TRUE]]
SeededRoles ==
    [r \in RoleIds |->
        CASE r = "r1" -> [state |-> "exists", name |-> "SuperAdmin",
                          permissions |-> <<"p1", "p2", "p3">>, isSystemRole |-> TRUE]
          [] r = "r2" -> [state |-> "exists", name |-> "User",
                          permissions |-> <<"p2">>, isSystemRole |-> TRUE]
          [] OTHER -> FreeRole]
\* The stored user of the session and authorization specifications.
OneUser ==
    [u \in UserIds |-> IF u = TheUser THEN [state |-> "exists", role |-> "r2"]
                       ELSE FreeUser]
Seeded ==
    /\ permissionDocs = SeededPermissions
    /\ roleDocs = SeededRoles
    /\ userDocs = OneUser

---------------------------------------------------------------------------
\* Helpers on lists.

Range(s) == {s[i] : i \in 1..Len(s)}
NoDupSeqs(S, n) ==
    UNION {{s \in [1..k -> S] : \A i, j \in 1..k : i # j => s[i] # s[j]} : k \in 0..n}
Includes(s, x) == \E i \in 1..Len(s) : s[i] = x

\* req.permissionCheck and req.requireOwnershipCheck before a middleware
\* sets them.
NoPermissionCheck ==
    [requiredPermissions |-> <<>>, userPermissions |-> <<>>, accessGranted |-> FALSE]
NoOwnershipCheck ==
    [resourceField |-> "", userId |-> NoUser, resourceId |-> NoResource, required |-> FALSE]

\* What every handler starts from: no response sent, next() not called,
\* nothing attached to the request, no collaborator called.
NoOutcome ==
    [status |-> 0, message |-> "", next |-> FALSE, user |-> NoUser,
     permissionCheck |-> NoPermissionCheck,
     requireOwnershipCheck |-> NoOwnershipCheck,
     requiredPermissions |-> <<>>, userPermissions |-> <<>>,
     permissions |-> <<>>, has |-> FALSE, calls |-> {}]
Respond(o, code, msg) == [o EXCEPT !.status = code, !.message = msg]
CallNext(o) == [o EXCEPT !.next = TRUE]
Called(o, f) == [o EXCEPT !.calls = @ \cup {f}]

---------------------------------------------------------------------------
\* Account security state machine (User model).

\* Variant: a lock that does not expire.
isLockedNeverExpires(lu, t) == lu # NoLock

\* Variant: the comparison of isLocked turned round.
isLockedInverted(lu, t) == lu # NoLock /\ lu < t

\* userSchema.virtual('isLocked')
isLocked(lu, t) == lu # NoLock /\ lu > t

\* Variant: the threshold tested on the count before the increment.
incLoginAttemptsLateLock(la, lu, t) ==
    IF lu # NoLock /\ lu < t
    THEN [loginAttempts |-> 1, lockUntil |-> NoLock]
    ELSE [loginAttempts |-> la + 1,
          lockUntil |-> IF la >= MaxAttempts /\ ~isLocked(lu, t)
                        THEN t + LockTime
                        ELSE lu]

\* userSchema.methods.incLoginAttempts, run at time t on a document loaded
\* with loginAttempts = la and lockUntil = lu.
incLoginAttempts(la, lu, t) ==
    IF lu # NoLock /\ lu < t
    THEN [loginAttempts |-> 1, lockUntil |-> NoLock]
    ELSE [loginAttempts |-> la + 1,
          lockUntil |-> IF la + 1 >= MaxAttempts /\ ~isLocked(lu, t)
                        THEN t + LockTime
                        ELSE lu]

\* incLoginAttempts as the database applies it: the branch and the lock are
\* decided on the document the handler loaded (la, lu) at time t; $inc adds
\* to the stored count sla, and a $set or $unset replaces the stored lock slu.
incLoginAttemptsOn(la, lu, t, sla, slu) ==
    IF lu # NoLock /\ lu < t
    THEN [loginAttempts |-> 1, lockUntil |-> NoLock]
    ELSE [loginAttempts |-> sla + 1,
          lockUntil |-> IF la + 1 >= MaxAttempts /\ ~isLocked(lu, t)
                        THEN t + LockTime
                        ELSE slu]

\* Variant: only loginAttempts is unset.
resetLoginAttemptsKeepsLock(la, lu) == [loginAttempts |-> 0, lockUntil |-> lu]

\* userSchema.methods.resetLoginAttempts: $unset of both fields; an absent
\* loginAttempts reads as its default, 0.
resetLoginAttempts(la, lu) == [loginAttempts |-> 0, lockUntil |-> NoLock]

\* login (auth controller). wellFormed: email and password present and the
\* email valid; found: a user has that email; passwordCorrect: the result of
\* comparePassword; t1: the time of the isLocked check; t2: the time at which
\* incLoginAttempts runs. Returns the response and the stored security fields.
login(wellFormed, found, passwordCorrect, active, la, lu, t1, t2) ==
    LET same == [loginAttempts |-> la, lockUntil |-> lu] IN
    IF ~wellFormed
    THEN [out |-> Respond(NoOutcome, 400, "Email and password are required"), sec |-> same]
    ELSE IF ~found
    THEN [out |-> Respond(NoOutcome, 401, "Invalid email or password"), sec |-> same]
    ELSE IF isLocked(lu, t1)
    THEN [out |-> Respond(NoOutcome, 423, "Account is temporarily locked"), sec |-> same]
    ELSE IF ~active
    THEN [out |-> Respond(NoOutcome, 403, "Account is deactivated"), sec |-> same]
    ELSE IF ~passwordCorrect
    THEN [out |-> Respond(Called(Called(NoOutcome, "comparePassword"), "incLoginAttempts"),
                          401, "Invalid email or password"),
          sec |-> incLoginAttempts(la, lu, t2)]
    ELSE [out |-> [Respond(Called(NoOutcome, "comparePassword"), 200, "Login successful")
                     EXCEPT !.user = TheUser],
          sec |-> IF la > 0 THEN resetLoginAttempts(la, lu) ELSE same]

---------------------------------------------------------------------------
\* Session validator (auth middleware).

Tokens == {"none", "expired", "invalid", "valid", "validUnknownUser"}
TokenUser(token) == IF token = "valid" THEN TheUser ELSE UnknownUser

\* Variant: a deactivated account answered as an authorization failure.
authenticateDeactivated403(token, found, active, lu, t) ==
    IF token = "none"
    THEN Respond(NoOutcome, 401, "Access denied. No token provided.")
    ELSE IF token = "expired"
    THEN Respond(NoOutcome, 401, "Access denied. Token has expired.")
    ELSE IF token = "invalid"
    THEN Respond(NoOutcome, 401, "Access denied. Invalid token.")
    ELSE IF ~found
    THEN Respond(NoOutcome, 401, "Access denied. User not found.")
    ELSE IF ~active
    THEN Respond(NoOutcome, 403, "Access denied. Account is deactivated.")
    ELSE IF isLocked(lu, t)
    THEN Respond(NoOutcome, 401, "Access denied. Account is temporarily locked due to too many failed login attempts.")
    ELSE CallNext([NoOutcome EXCEPT !.user = TheUser])

\* Variant: an invalid token is answered 401.
optionalAuthRejectsInvalid(token, found, active, lu, t, fault) ==
    IF token = "none"
    THEN CallNext(NoOutcome)
    ELSE IF token = "invalid"
    THEN Respond(NoOutcome, 401, "Access denied. Invalid token.")
    ELSE IF token = "expired" \/ fault
    THEN CallNext(NoOutcome)
    ELSE IF found /\ active /\ ~isLocked(lu, t)
    THEN CallNext([NoOutcome EXCEPT !.user = TheUser])
    ELSE CallNext(NoOutcome)

\* Variant: the lock is not looked at before the principal is attached.
optionalAuthAttachesLocked(token, found, active, lu, t, fault) ==
    IF token = "none"
    THEN CallNext(NoOutcome)
    ELSE IF token \in {"expired", "invalid"} \/ fault
    THEN CallNext(NoOutcome)
    ELSE IF found /\ active
    THEN CallNext([NoOutcome EXCEPT !.user = TheUser])
    ELSE CallNext(NoOutcome)

\* optionalAuth: as authenticate, but every failure is swallowed; fault is
\* an error thrown by User.findById or populate.
optionalAuth(token, found, active, lu, t, fault) ==
    IF token = "none"
    THEN CallNext(NoOutcome)
    ELSE IF token \in {"expired", "invalid"} \/ fault
    THEN CallNext(NoOutcome)
    ELSE IF found /\ active /\ ~isLocked(lu, t)
    THEN CallNext([NoOutcome EXCEPT !.user = TheUser])
    ELSE CallNext(NoOutcome)

\* authenticate: token is what jwt.verify makes of the bearer credential,
\* found/active/lu the user document User.findById returns, t the time.
authenticate(token, found, active, lu, t) ==
    IF token = "none"
    THEN Respond(NoOutcome, 401, "Access denied. No token provided.")
    ELSE IF token = "expired"
    THEN Respond(NoOutcome, 401, "Access denied. Token has expired.")
    ELSE IF token = "invalid"
    THEN Respond(NoOutcome, 401, "Access denied. Invalid token.")
    ELSE IF ~found
    THEN Respond(NoOutcome, 401, "Access denied. User not found.")
    ELSE IF ~active
    THEN Respond(NoOutcome, 401, "Access denied. Account is deactivated.")
    ELSE IF isLocked(lu, t)
    THEN Respond(NoOutcome, 401, "Access denied. Account is temporarily locked due to too many failed login attempts.")
    ELSE CallNext([NoOutcome EXCEPT !.user = TheUser])

---------------------------------------------------------------------------
\* Actions of the session specification.

AuthzData == <<role, granted, revoked>>

\* The security fields of the user document as a handler loads it.
Loaded == [isActive |-> isActive, loginAttempts |-> loginAttempts, lockUntil |-> lockUntil]

\* POST /api/auth/login, while the clock stays within the horizon; the
\* password comparison takes d units of time.
LoginWithin(horizon, wellFormed, found, passwordCorrect, d) ==
    /\ now + d <= horizon
    /\ LET r == login(wellFormed, found, passwordCorrect, isActive,
                      loginAttempts, lockUntil, now, now + d)
       IN /\ out' = r.out
          /\ loginAttempts' = r.sec.loginAttempts
          /\ lockUntil' = r.sec.lockUntil
    /\ req' = [handler |-> "login", wellFormed |-> wellFormed, found |-> found,
               passwordCorrect |-> passwordCorrect, at |-> now, at2 |-> now + d,
               doc |-> Loaded]
    /\ now' = now + d
    /\ UNCHANGED <<isActive, AuthzData, Collections>>

Login(wellFormed, found, passwordCorrect, d) ==
    LoginWithin(MaxTime, wellFormed, found, passwordCorrect, d)

\* Any route behind router.use(authenticate)
Authenticate(token) ==
    /\ out' = authenticate(token, TokenUser(token) = TheUser, isActive, lockUntil, now)
    /\ req' = [handler |-> "authenticate", token |-> token, at |-> now,
               doc |-> Loaded]
    /\ UNCHANGED <<isActive, loginAttempts, lockUntil, now, AuthzData, Collections>>

\* Any route behind optionalAuth, up to the call of next().
OptionalAuth(token, fault) ==
    /\ out' = optionalAuth(token, TokenUser(token) = TheUser, isActive, lockUntil, now, fault)
    /\ req' = [handler |-> "optionalAuth", token |-> token, fault |-> fault,
               at |-> now, doc |-> Loaded]
    /\ UNCHANGED <<isActive, loginAttempts, lockUntil, now, AuthzData, Collections>>

\* PUT /api/users/:id by a caller; only a caller holding user.update changes
\* isActive.
UpdateUser(hasUserManagePermission, isActiveBody) ==
    /\ isActive' = IF hasUserManagePermission THEN isActiveBody ELSE isActive
    /\ req' = [handler |-> "updateUser", isActive |-> isActiveBody]
    /\ out' = Respond(NoOutcome, 200, "User updated successfully")
    /\ UNCHANGED <<loginAttempts, lockUntil, now, AuthzData, Collections>>

\* Time passes.
Tick ==
    /\ now < MaxTime
    /\ now' = now + 1
    /\ UNCHANGED <<isActive, loginAttempts, lockUntil, req, out, AuthzData, Collections>>

\* The seeded role a registered user gets.
SeedRole ==
    [name |-> "User", permissions |-> <<"p2">>, isSystemRole |-> TRUE,
     isActive |-> TRUE, loaded |-> TRUE]

InitSession ==
    /\ role = SeedRole
    /\ granted = <<>>
    /\ revoked = <<>>
    /\ isActive = TRUE
    /\ loginAttempts = 0
    /\ lockUntil = NoLock
    /\ now = 0
    /\ req = [handler |-> "none"]
    /\ out = NoOutcome
    /\ Seeded

NextSession ==
    \/ \E wellFormed, found, passwordCorrect \in BOOLEAN, d \in 0..1 :
          Login(wellFormed, found, passwordCorrect, d)
    \/ \E token \in Tokens : Authenticate(token)
    \/ \E token \in Tokens, fault \in BOOLEAN : OptionalAuth(token, fault)
    \/ \E m, b \in BOOLEAN : UpdateUser(m, b)
    \/ Tick

SpecSession == InitSession /\ [][NextSession]_vars

---------------------------------------------------------------------------
\* The lockout cycle: the owner of an active account keeps trying the
\* correct password while wrong passwords are tried on the account.

LiveTick ==
    /\ now < MaxLiveTime
    /\ now' = now + 1
    /\ UNCHANGED <<isActive, loginAttempts, lockUntil, req, out, AuthzData, Collections>>

\* A login with a wrong password, while the clock leaves room for the lock
\* it may set to expire.
FailedLogin(d) ==
    /\ now + d + LockTime <= MaxLiveTime
    /\ LoginWithin(MaxLiveTime, TRUE, TRUE, FALSE, d)

\* A login with the correct password.
CorrectLogin == LoginWithin(MaxLiveTime, TRUE, TRUE, TRUE, 0)

NextLockout ==
    \/ \E d \in 0..1 : FailedLogin(d)
    \/ CorrectLogin
    \/ LiveTick

\* Time passes, and the owner of the account tries again.
SpecLockout ==
    /\ InitSession
    /\ [][NextLockout]_vars
    /\ WF_vars(LiveTick)
    /\ WF_vars(CorrectLogin)

---------------------------------------------------------------------------
\* Two logins with a wrong password on the same account, in flight at the
\* same time: each loads the user document, then sends its update.

Logins == {"l1", "l2"}

\* login up to comparePassword: User.findOne, then the isLocked test.
LoadUser(l) ==
    /\ req.pc[l] = "start"
    /\ LET locked == isLocked(lockUntil, now)
       IN /\ req' = [req EXCEPT !.pc[l] = IF locked THEN "done" ELSE "compared",
                                !.doc[l] = Loaded]
          /\ out' = [out EXCEPT ![l] =
                       IF locked
                       THEN Respond(NoOutcome, 423, "Account is temporarily locked")
                       ELSE Called(NoOutcome, "comparePassword")]
    /\ UNCHANGED <<isActive, loginAttempts, lockUntil, now, AuthzData, Collections>>

\* login from the failed comparePassword on: incLoginAttempts on the loaded
\* document, then the 401.
FailLogin(l) ==
    /\ req.pc[l] = "compared"
    /\ LET sec == incLoginAttemptsOn(req.doc[l].loginAttempts, req.doc[l].lockUntil,
                                     now, loginAttempts, lockUntil)
       IN /\ loginAttempts' = sec.loginAttempts
          /\ lockUntil' = sec.lockUntil
    /\ req' = [req EXCEPT !.pc[l] = "done"]
    /\ out' = [out EXCEPT ![l] = Respond(Called(@, "incLoginAttempts"),
                                         401, "Invalid email or password")]
    /\ UNCHANGED <<isActive, now, AuthzData, Collections>>

\* The security fields the account has when the two logins arrive: up to
\* four failures recorded, or locked by the fifth.
LoginStarts ==
    {[loginAttempts |-> k, lockUntil |-> NoLock] : k \in 0..(MaxAttempts - 1)}
      \cup {[loginAttempts |-> MaxAttempts, lockUntil |-> LockTime]}

InitLogins ==
    /\ role = SeedRole
    /\ granted = <<>>
    /\ revoked = <<>>
    /\ isActive = TRUE
    /\ \E s \in LoginStarts :
          /\ loginAttempts = s.loginAttempts
          /\ lockUntil = s.lockUntil
          /\ req = [handler |-> "login, login", start |-> s,
                    pc |-> [l \in Logins |-> "start"],
                    doc |-> [l \in Logins |-> s]]
    /\ now = 0
    /\ out = [l \in Logins |-> NoOutcome]
    /\ Seeded

NextLogins ==
    \/ \E l \in Logins : LoadUser(l)
    \/ \E l \in Logins : FailLogin(l)
    \/ Tick

SpecLogins == InitLogins /\ [][NextLogins]_vars

---------------------------------------------------------------------------
\* Permission resolver (User model).

\* A populated permission document.
Doc(p) == [id |-> p, name |-> PermName(p)]
\* populate() of a list of permission references.
Populate(ids) == [i \in 1..Len(ids) |-> Doc(ids[i])]
\* list.some(p => p._id.toString() === d._id.toString())
SomeId(list, d) == \E i \in 1..Len(list) : list[i].id = d.id

\* grantedPermissions.forEach(push unless already in allPermissions)
RECURSIVE PushGranted(_, _)
PushGranted(allPermissions, grantedPermissions) ==
    IF grantedPermissions = <<>>
    THEN allPermissions
    ELSE PushGranted(IF SomeId(allPermissions, Head(grantedPermissions))
                     THEN allPermissions
                     ELSE Append(allPermissions, Head(grantedPermissions)),
                     Tail(grantedPermissions))

\* allPermissions.filter(not in revokedPermissions)
FilterRevoked(allPermissions, revokedPermissions) ==
    SelectSeq(allPermissions, LAMBDA p : ~SomeId(revokedPermissions, p))

\* Variant: the revoked permissions filtered out before the granted ones
\* are added.
getAllPermissionsRevokeFirst(u) ==
    LET rolePermissions == IF u.role.loaded THEN Populate(u.role.permissions) ELSE <<>>
        grantedPermissions == Populate(u.granted)
        revokedPermissions == Populate(u.revoked)
    IN PushGranted(FilterRevoked(rolePermissions, revokedPermissions), grantedPermissions)

\* Variant: the permissions of an inactive role left out.
getAllPermissionsActiveRoleOnly(u) ==
    LET rolePermissions == IF u.role.loaded /\ u.role.isActive
                           THEN Populate(u.role.permissions) ELSE <<>>
        grantedPermissions == Populate(u.granted)
        revokedPermissions == Populate(u.revoked)
    IN FilterRevoked(PushGranted(rolePermissions, grantedPermissions), revokedPermissions)

\* userSchema.methods.getAllPermissions on a user document u.
getAllPermissions(u) ==
    LET rolePermissions == IF u.role.loaded THEN Populate(u.role.permissions) ELSE <<>>
        grantedPermissions == Populate(u.granted)
        revokedPermissions == Populate(u.revoked)
    IN FilterRevoked(PushGranted(rolePermissions, grantedPermissions), revokedPermissions)

\* userSchema.methods.hasPermission
hasPermission(u, permissionName) ==
    LET permissions == getAllPermissions(u)
    IN \E i \in 1..Len(permissions) : permissions[i].name = permissionName

\* userPermissions.map(p => p.name)
Names(permissions) == [i \in 1..Len(permissions) |-> permissions[i].name]

---------------------------------------------------------------------------
\* Authorization middleware. u is req.user: u.attached is FALSE when the
\* request carries no principal. populateFails: the populate() inside
\* getAllPermissions rejects (a storage fault).

\* Variant: the role name compared in the wrong case.
SuperAdminBypassWrongName(u, allowSuperAdmin) ==
    allowSuperAdmin /\ u.role.loaded /\ u.role.name = "superadmin"

\* requirePermissions: the SuperAdmin bypass test.
SuperAdminBypass(u, allowSuperAdmin) ==
    allowSuperAdmin /\ u.role.loaded /\ u.role.name = "SuperAdmin"

\* Variant: every and some exchanged.
HasAccessSwapped(userPermissionNames, permissions, requireAll) ==
    IF requireAll
    THEN \E i \in 1..Len(permissions) : Includes(userPermissionNames, permissions[i])
    ELSE \A i \in 1..Len(permissions) : Includes(userPermissionNames, permissions[i])

\* requirePermissions: hasAccess, every or some required permission held.
HasAccess(userPermissionNames, permissions, requireAll) ==
    IF requireAll
    THEN \A i \in 1..Len(permissions) : Includes(userPermissionNames, permissions[i])
    ELSE \E i \in 1..Len(permissions) : Includes(userPermissionNames, permissions[i])

\* Variant: the admission leaves no req.permissionCheck behind.
requirePermissionsNoRecord(u, permissions, requireAll, allowSuperAdmin, populateFails) ==
    IF ~u.attached
    THEN Respond(NoOutcome, 401, "Authentication required to access this resource.")
    ELSE IF SuperAdminBypass(u, allowSuperAdmin)
    THEN CallNext(NoOutcome)
    ELSE IF populateFails
    THEN Respond(Called(NoOutcome, "getAllPermissions"), 500,
                 "Internal server error during permission verification.")
    ELSE
      LET userPermissionNames == Names(getAllPermissions(u))
          hasAccess == HasAccess(userPermissionNames, permissions, requireAll)
          o == Called(NoOutcome, "getAllPermissions")
      IN IF ~hasAccess
         THEN [Respond(o, 403, "Access denied. Required permissions")
                 EXCEPT !.requiredPermissions = permissions,
                        !.userPermissions = userPermissionNames]
         ELSE CallNext(o)

\* Variant: the 403 body with its two lists exchanged.
requirePermissionsBodySwapped(u, permissions, requireAll, allowSuperAdmin, populateFails) ==
    IF ~u.attached
    THEN Respond(NoOutcome, 401, "Authentication required to access this resource.")
    ELSE IF SuperAdminBypass(u, allowSuperAdmin)
    THEN CallNext(NoOutcome)
    ELSE IF populateFails
    THEN Respond(Called(NoOutcome, "getAllPermissions"), 500,
                 "Internal server error during permission verification.")
    ELSE
      LET userPermissionNames == Names(getAllPermissions(u))
          hasAccess == HasAccess(userPermissionNames, permissions, requireAll)
          o == Called(NoOutcome, "getAllPermissions")
      IN IF ~hasAccess
         THEN [Respond(o, 403, "Access denied. Required permissions")
                 EXCEPT !.requiredPermissions = userPermissionNames,
                        !.userPermissions = permissions]
         ELSE CallNext([o EXCEPT !.permissionCheck =
                          [requiredPermissions |-> permissions,
                           userPermissions |-> userPermissionNames,
                           accessGranted |-> TRUE]])

\* requirePermissions(requiredPermissions, {requireAll, allowSuperAdmin})
requirePermissions(u, permissions, requireAll, allowSuperAdmin, populateFails) ==
    IF ~u.attached
    THEN Respond(NoOutcome, 401, "Authentication required to access this resource.")
    ELSE IF SuperAdminBypass(u, allowSuperAdmin)
    THEN CallNext(NoOutcome)
    ELSE IF populateFails
    THEN Respond(Called(NoOutcome, "getAllPermissions"), 500,
                 "Internal server error during permission verification.")
    ELSE
      LET userPermissionNames == Names(getAllPermissions(u))
          hasAccess == HasAccess(userPermissionNames, permissions, requireAll)
          o == Called(NoOutcome, "getAllPermissions")
      IN IF ~hasAccess
         THEN [Respond(o, 403, "Access denied. Required permissions")
                 EXCEPT !.requiredPermissions = permissions,
                        !.userPermissions = userPermissionNames]
         ELSE CallNext([o EXCEPT !.permissionCheck =
                          [requiredPermissions |-> permissions,
                           userPermissions |-> userPermissionNames,
                           accessGranted |-> TRUE]])

\* Variant: SuperAdmin let through whatever the list.
RoleAllowedOrSuperAdmin(u, roles) ==
    Includes(roles, u.role.name) \/ u.role.name = "SuperAdmin"

\* requireRoles: roles.includes(req.user.role.name)
RoleAllowed(u, roles) == Includes(roles, u.role.name)

\* Variant: the anonymous request answered like a denied one.
requireRolesAnonymous403(u, roles) ==
    IF ~u.attached
    THEN Respond(NoOutcome, 403, "Authentication required.")
    ELSE IF ~u.role.loaded
    THEN Respond(NoOutcome, 403, "Access denied. No role assigned.")
    ELSE IF ~RoleAllowed(u, roles)
    THEN Respond(NoOutcome, 403, "Access denied. Required role(s)")
    ELSE CallNext(NoOutcome)

\* requireRoles(allowedRoles)
requireRoles(u, roles) ==
    IF ~u.attached
    THEN Respond(NoOutcome, 401, "Authentication required.")
    ELSE IF ~u.role.loaded
    THEN Respond(NoOutcome, 403, "Access denied. No role assigned.")
    ELSE IF ~RoleAllowed(u, roles)
    THEN Respond(NoOutcome, 403, "Access denied. Required role(s)")
    ELSE CallNext(NoOutcome)

\* Variant: a fault of the resolver passes the request on.
requireOwnershipOrPermissionFaultAdmits(u, resourceField, adminPermissions, resourceId, populateFails) ==
    IF ~u.attached
    THEN Respond(NoOutcome, 401, "Authentication required.")
    ELSE IF u.role.loaded /\ u.role.name = "SuperAdmin"
    THEN CallNext(NoOutcome)
    ELSE IF Len(adminPermissions) > 0 /\ populateFails
    THEN CallNext(Called(NoOutcome, "getAllPermissions"))
    ELSE
      LET resolved == Len(adminPermissions) > 0
          userPermissionNames == IF resolved THEN Names(getAllPermissions(u)) ELSE <<>>
          hasAdminPermission ==
            \E i \in 1..Len(adminPermissions) : Includes(userPermissionNames, adminPermissions[i])
          o == IF resolved THEN Called(NoOutcome, "getAllPermissions") ELSE NoOutcome
      IN IF resolved /\ hasAdminPermission
         THEN CallNext(o)
         ELSE IF resourceId = NoResource
         THEN Respond(o, 400, "Resource ID is required.")
         ELSE CallNext([o EXCEPT !.requireOwnershipCheck =
                          [resourceField |-> resourceField, userId |-> u.id,
                           resourceId |-> resourceId, required |-> TRUE]])

\* requireOwnershipOrPermission(resourceField, adminPermissions); resourceId
\* is req.params.id || req.params.postId || req.body.id, NoResource when none.
requireOwnershipOrPermission(u, resourceField, adminPermissions, resourceId, populateFails) ==
    IF ~u.attached
    THEN Respond(NoOutcome, 401, "Authentication required.")
    ELSE IF u.role.loaded /\ u.role.name = "SuperAdmin"
    THEN CallNext(NoOutcome)
    ELSE IF Len(adminPermissions) > 0 /\ populateFails
    THEN Respond(Called(NoOutcome, "getAllPermissions"), 500,
                 "Internal server error during ownership verification.")
    ELSE
      LET resolved == Len(adminPermissions) > 0
          userPermissionNames == IF resolved THEN Names(getAllPermissions(u)) ELSE <<>>
          hasAdminPermission ==
            \E i \in 1..Len(adminPermissions) : Includes(userPermissionNames, adminPermissions[i])
          o == IF resolved THEN Called(NoOutcome, "getAllPermissions") ELSE NoOutcome
      IN IF resolved /\ hasAdminPermission
         THEN CallNext(o)
         ELSE IF resourceId = NoResource
         THEN Respond(o, 400, "Resource ID is required.")
         ELSE CallNext([o EXCEPT !.requireOwnershipCheck =
                          [resourceField |-> resourceField, userId |-> u.id,
                           resourceId |-> resourceId, required |-> TRUE]])

\* getProfile (auth controller): the effective permissions of req.user.
getProfile(u) ==
    [Respond(Called(NoOutcome, "getAllPermissions"), 200, "Profile retrieved successfully")
       EXCEPT !.permissions = getAllPermissions(u)]

\* getPosts (post controller): asks the resolver for post.read only when a
\* principal is attached to the request.
getPosts(attached, u) ==
    IF attached
    THEN [Respond(Called(NoOutcome, "getAllPermissions"), 200, "Posts retrieved successfully")
            EXCEPT !.has = hasPermission(u, "post.read")]
    ELSE Respond(NoOutcome, 200, "Posts retrieved successfully")

\* A route: the controller runs when the middleware called next(), on the
\* principal the middleware attached.
Route(o, controller) ==
    IF o.next
    THEN [controller EXCEPT !.user = o.user]
    ELSE o

---------------------------------------------------------------------------
\* Actions of the authorization specification. Every request is a fresh
\* one: a middleware runs on a request nothing has handled yet.

SecurityData == <<isActive, loginAttempts, lockUntil, now>>

\* req.user as authenticate attaches it (role and overrides populated), or
\* the request of an anonymous caller.
Principal(attached) ==
    [attached |-> attached, id |-> TheUser, role |-> role,
     granted |-> granted, revoked |-> revoked]

Fresh == req.handler = "none"

RequirePermissions(attached, permissions, requireAll, allowSuperAdmin, populateFails) ==
    /\ Fresh
    /\ req' = [handler |-> "requirePermissions", attached |-> attached,
               permissions |-> permissions, requireAll |-> requireAll,
               allowSuperAdmin |-> allowSuperAdmin, populateFails |-> populateFails]
    /\ out' = requirePermissions(Principal(attached), permissions, requireAll,
                                 allowSuperAdmin, populateFails)
    /\ UNCHANGED <<AuthzData, SecurityData, Collections>>

RequireRoles(attached, roles) ==
    /\ Fresh
    /\ req' = [handler |-> "requireRoles", attached |-> attached, roles |-> roles]
    /\ out' = requireRoles(Principal(attached), roles)
    /\ UNCHANGED <<AuthzData, SecurityData, Collections>>

RequireOwnershipOrPermission(attached, adminPermissions, resourceId, populateFails) ==
    /\ Fresh
    /\ req' = [handler |-> "requireOwnershipOrPermission", attached |-> attached,
               adminPermissions |-> adminPermissions, resourceId |-> resourceId,
               populateFails |-> populateFails]
    /\ out' = requireOwnershipOrPermission(Principal(attached), "author",
                                           adminPermissions, resourceId, populateFails)
    /\ UNCHANGED <<AuthzData, SecurityData, Collections>>

\* GET /api/auth/profile
GetProfile ==
    /\ Fresh
    /\ req' = [handler |-> "getProfile", attached |-> TRUE]
    /\ out' = getProfile(Principal(TRUE))
    /\ UNCHANGED <<AuthzData, SecurityData, Collections>>

\* A controller asking req.user.hasPermission(name).
HasPermission(permissionName) ==
    /\ Fresh
    /\ req' = [handler |-> "hasPermission", attached |-> TRUE,
               permissionName |-> permissionName]
    /\ out' = [Called(NoOutcome, "getAllPermissions")
                 EXCEPT !.has = hasPermission(Principal(TRUE), permissionName)]
    /\ UNCHANGED <<AuthzData, SecurityData, Collections>>

\* The next request arrives.
NextRequest ==
    /\ ~Fresh
    /\ req' = [handler |-> "none"]
    /\ out' = NoOutcome
    /\ UNCHANGED <<AuthzData, SecurityData, Collections>>

\* The role documents a principal is drawn with: each name with each of
\* these permission lists, and the principal whose role did not load.
RolePermissionLists == {<<>>, <<"p1", "p2">>, <<"p3", "p2", "p1">>}
DrawnRoles ==
    {[name |-> n, permissions |-> ps, isSystemRole |-> (n = "SuperAdmin"),
      isActive |-> TRUE, loaded |-> TRUE] :
        n \in {"SuperAdmin", "Editor"}, ps \in RolePermissionLists} \cup {NoRole}

InitAuthz ==
    /\ role \in DrawnRoles
    /\ granted \in NoDupSeqs(PermIds, MaxOverrides)
    /\ revoked \in NoDupSeqs(PermIds, MaxOverrides)
    /\ isActive = TRUE
    /\ loginAttempts = 0
    /\ lockUntil = NoLock
    /\ now = 0
    /\ req = [handler |-> "none"]
    /\ out = NoOutcome
    /\ Seeded

NextAuthz ==
    \/ \E attached, requireAll, allowSuperAdmin, populateFails \in BOOLEAN,
          permissions \in NoDupSeqs(PermNames, MaxRequired) :
          RequirePermissions(attached, permissions, requireAll, allowSuperAdmin, populateFails)
    \/ \E attached \in BOOLEAN, roles \in NoDupSeqs(RoleNames, MaxRequired) :
          RequireRoles(attached, roles)
    \/ \E attached, populateFails \in BOOLEAN,
          adminPermissions \in NoDupSeqs(PermNames, MaxRequired),
          resourceId \in Resources \cup {NoResource} :
          RequireOwnershipOrPermission(attached, adminPermissions, resourceId, populateFails)
    \/ GetProfile
    \/ \E permissionName \in PermNames : HasPermission(permissionName)
    \/ NextRequest

SpecAuthz == InitAuthz /\ [][NextAuthz]_vars

---------------------------------------------------------------------------
\* The same middlewares on principals whose role is active or not, with
\* the role update that sets the flag.

\* updateRole with body {isActive}: [out, role] for the role document r.
updateRole(r, isActiveBody) ==
    IF ~r.loaded
    THEN [out |-> Respond(NoOutcome, 404, "Role not found"), role |-> r]
    ELSE IF r.isSystemRole
    THEN [out |-> Respond(NoOutcome, 403, "System roles cannot be modified"), role |-> r]
    ELSE [out |-> Respond(NoOutcome, 200, "Role updated successfully"),
          role |-> [r EXCEPT !.isActive = isActiveBody]]

\* PUT /api/roles/:id on the role of the stored user.
UpdateRole(isActiveBody) ==
    /\ Fresh
    /\ req' = [handler |-> "updateRole", isActive |-> isActiveBody]
    /\ out' = updateRole(role, isActiveBody).out
    /\ role' = updateRole(role, isActiveBody).role
    /\ UNCHANGED <<granted, revoked, SecurityData, Collections>>

\* The roles drawn here: a system role and a custom one, each active or
\* not, holding two permissions.
ActivityRoles ==
    {[r EXCEPT !.isActive = b] :
        r \in {d \in DrawnRoles : d.permissions = <<"p1", "p2">>}, b \in BOOLEAN}

InitRoleActive ==
    /\ role \in ActivityRoles
    /\ granted \in NoDupSeqs(PermIds, MaxOverrides)
    /\ revoked \in NoDupSeqs(PermIds, MaxOverrides)
    /\ isActive = TRUE
    /\ loginAttempts = 0
    /\ lockUntil = NoLock
    /\ now = 0
    /\ req = [handler |-> "none"]
    /\ out = NoOutcome
    /\ Seeded

NextRoleActive ==
    \/ NextAuthz
    \/ \E isActiveBody \in BOOLEAN : UpdateRole(isActiveBody)

SpecRoleActive == InitRoleActive /\ [][NextRoleActive]_vars

---------------------------------------------------------------------------
\* Ids as request strings. A permission id is stored as an ObjectId, whose
\* toString() is the lowercase hex spelling (here the id itself); a request
\* may spell the same id with uppercase hex digits, or send a string that
\* is not an ObjectId at all.

InvalidId == "zz"
Upper(p) ==
    CASE p = "p1" -> "P1"
      [] p = "p2" -> "P2"
      [] p = "p3" -> "P3"

\* validators.js: /^[0-9a-fA-F]{24}$/ accepts either case.
isValidObjectId(id) == id # InvalidId

\* The ObjectId mongoose casts a valid string to.
CastObjectId(id) ==
    IF \E p \in PermIds : Upper(p) = id
    THEN CHOOSE p \in PermIds : Upper(p) = id
    ELSE id
CastAll(ids) == [i \in 1..Len(ids) |-> CastObjectId(ids[i])]

\* Permission.find({ _id: { $in: permissions } }): the documents found.
FindPermissions(permissions) ==
    {p \in PermIds : /\ permissionDocs[p].state = "exists"
                     /\ \E i \in 1..Len(permissions) : CastObjectId(permissions[i]) = p}

\* list.filter(permId => !permissions.includes(permId.toString()))
WithoutBody(list, permissions) ==
    LET Kept(permId) == ~Includes(permissions, permId)
    IN SelectSeq(list, Kept)

\* permissions.filter(permId => !list.some(existingId => existingId.toString() === permId))
NotYetIn(permissions, list) ==
    LET New(permId) == ~Includes(list, permId)
    IN SelectSeq(permissions, New)

---------------------------------------------------------------------------
\* Custom permission overrides of a user (user controller). u is the user
\* document found for id: u.found is FALSE when there is none. The result
\* is the response and the two lists as saved.

\* Variant: a grant that leaves the revoked list alone.
grantKeepsRevoked(id, permissions, u) ==
    LET same(code, msg) ==
          [out |-> Respond(NoOutcome, code, msg), granted |-> u.granted, revoked |-> u.revoked]
        newPermissions == NotYetIn(permissions, u.granted)
    IN IF ~isValidObjectId(id) THEN same(400, "Invalid user ID")
       ELSE IF Len(permissions) = 0 THEN same(400, "Permissions array is required")
       ELSE IF \E i \in 1..Len(permissions) : ~isValidObjectId(permissions[i])
       THEN same(400, "Invalid permission IDs provided")
       ELSE IF ~u.found THEN same(404, "User not found")
       ELSE IF Cardinality(FindPermissions(permissions)) # Len(permissions)
       THEN same(400, "Some permissions do not exist")
       ELSE IF Len(newPermissions) = 0
       THEN same(400, "All specified permissions are already granted to this user")
       ELSE [out |-> Respond(NoOutcome, 200, "custom permissions granted successfully"),
             granted |-> u.granted \o CastAll(newPermissions),
             revoked |-> u.revoked]

\* grantCustomPermissions
grantCustomPermissions(id, permissions, u) ==
    LET same(code, msg) ==
          [out |-> Respond(NoOutcome, code, msg), granted |-> u.granted, revoked |-> u.revoked]
        newPermissions == NotYetIn(permissions, u.granted)
    IN IF ~isValidObjectId(id) THEN same(400, "Invalid user ID")
       ELSE IF Len(permissions) = 0 THEN same(400, "Permissions array is required")
       ELSE IF \E i \in 1..Len(permissions) : ~isValidObjectId(permissions[i])
       THEN same(400, "Invalid permission IDs provided")
       ELSE IF ~u.found THEN same(404, "User not found")
       ELSE IF Cardinality(FindPermissions(permissions)) # Len(permissions)
       THEN same(400, "Some permissions do not exist")
       ELSE IF Len(newPermissions) = 0
       THEN same(400, "All specified permissions are already granted to this user")
       ELSE [out |-> Respond(NoOutcome, 200, "custom permissions granted successfully"),
             granted |-> u.granted \o CastAll(newPermissions),
             revoked |-> WithoutBody(u.revoked, permissions)]

\* revokeCustomPermissions. The ids are not validated: pushing a string
\* that is not an ObjectId throws a CastError, which asyncHandler passes to
\* the error middleware, and nothing is saved.
revokeCustomPermissions(id, permissions, u) ==
    LET same(code, msg) ==
          [out |-> Respond(NoOutcome, code, msg), granted |-> u.granted, revoked |-> u.revoked]
        newRevokedPermissions == NotYetIn(permissions, u.revoked)
    IN IF ~isValidObjectId(id) THEN same(400, "Invalid user ID")
       ELSE IF Len(permissions) = 0 THEN same(400, "Permissions array is required")
       ELSE IF ~u.found THEN same(404, "User not found")
       ELSE IF \E i \in 1..Len(newRevokedPermissions) : ~isValidObjectId(newRevokedPermissions[i])
       THEN same(500, "Cast to ObjectId failed")
       ELSE [out |-> Respond(NoOutcome, 200, "custom permissions revoked successfully"),
             granted |-> WithoutBody(u.granted, permissions),
             revoked |-> u.revoked \o CastAll(newRevokedPermissions)]

\* removeCustomPermissions
removeCustomPermissions(id, permissions, u) ==
    LET same(code, msg) ==
          [out |-> Respond(NoOutcome, code, msg), granted |-> u.granted, revoked |-> u.revoked]
    IN IF ~isValidObjectId(id) THEN same(400, "Invalid user ID")
       ELSE IF Len(permissions) = 0 THEN same(400, "Permissions array is required")
       ELSE IF ~u.found THEN same(404, "User not found")
       ELSE [out |-> Respond(NoOutcome, 200, "Custom permissions removed successfully"),
             granted |-> WithoutBody(u.granted, permissions),
             revoked |-> WithoutBody(u.revoked, permissions)]

\* User.findById(id) with the override lists of the stored user.
FindUser(id) ==
    [found |-> id = TheUser /\ userDocs[TheUser].state = "exists",
     granted |-> granted, revoked |-> revoked]

\* A user-override request: r is what the handler computed. The lists of
\* the document are recorded as loaded (req.doc).
Override(handler, id, permissions, r) ==
    /\ Fresh
    /\ Len(r.granted) <= MaxList
    /\ Len(r.revoked) <= MaxList
    /\ req' = [handler |-> handler, id |-> id, permissions |-> permissions,
               doc |-> [granted |-> granted, revoked |-> revoked]]
    /\ out' = r.out
    /\ granted' = r.granted
    /\ revoked' = r.revoked
    /\ UNCHANGED <<role, SecurityData, Collections>>

\* POST /api/users/:id/permissions/grant
GrantCustomPermissions(id, permissions) ==
    Override("grantCustomPermissions", id, permissions,
             grantCustomPermissions(id, permissions, FindUser(id)))

\* POST /api/users/:id/permissions/revoke
RevokeCustomPermissions(id, permissions) ==
    Override("revokeCustomPermissions", id, permissions,
             revokeCustomPermissions(id, permissions, FindUser(id)))

\* DELETE /api/users/:id/permissions
RemoveCustomPermissions(id, permissions) ==
    Override("removeCustomPermissions", id, permissions,
             removeCustomPermissions(id, permissions, FindUser(id)))

\* The ids a body of this specification is made of: one permission in its
\* two spellings, a second one, and a string that is no ObjectId.
BodyIds == {"p1", Upper("p1"), "p2", InvalidId}
\* Sequences over S of length at most n.
SeqsUpTo(S, n) == UNION {[1..k -> S] : k \in 0..n}

InitOverrides ==
    /\ role = SeedRole
    /\ granted = <<>>
    /\ revoked = <<>>
    /\ isActive = TRUE
    /\ loginAttempts = 0
    /\ lockUntil = NoLock
    /\ now = 0
    /\ req = [handler |-> "none"]
    /\ out = NoOutcome
    /\ Seeded

NextOverrides ==
    \/ \E id \in {TheUser, UnknownUser, InvalidId}, permissions \in SeqsUpTo(BodyIds, MaxBody) :
          \/ GrantCustomPermissions(id, permissions)
          \/ RevokeCustomPermissions(id, permissions)
          \/ RemoveCustomPermissions(id, permissions)
    \/ NextRequest

SpecOverrides == InitOverrides /\ [][NextOverrides]_vars

---------------------------------------------------------------------------
\* Permission and role controllers. Each operator gives the response and
\* the collection as the handler leaves it.

ExistingPermissions == {p \in PermIds : permissionDocs[p].state = "exists"}
ExistingRoles == {r \in RoleIds : roleDocs[r].state = "exists"}
ExistingUsers == {u \in UserIds : userDocs[u].state = "exists"}
\* The id the next created document gets: one never used before.
FreeIds(docs) == {d \in DOMAIN docs : docs[d].state = "free"}

\* Role.find({ permissions: id })
RolesUsingPermission(p) ==
    {r \in ExistingRoles : Includes(roleDocs[r].permissions, p)}
\* User.find({ $or: [{ 'customPermissions.granted': id }, { 'customPermissions.revoked': id }] })
UsersWithCustomPermission(p) ==
    {u \in ExistingUsers : u = TheUser /\ (Includes(granted, p) \/ Includes(revoked, p))}
\* User.find({ role: id })
UsersWithRole(r) == {u \in ExistingUsers : userDocs[u].role = r}
\* Role.findOne({ name })
RolesNamed(name) == {r \in ExistingRoles : roleDocs[r].name = name}

\* createPermission for a name no deleted permission had; validates: the
\* new document passes schema validation (resource and action are required
\* fields that only the pre-save hook fills in).
createPermission(name, validates) ==
    LET same(code, msg) == [out |-> Respond(NoOutcome, code, msg), permissionDocs |-> permissionDocs]
        id == CHOOSE p \in FreeIds(permissionDocs) : PermName(p) = name
    IN IF \E p \in ExistingPermissions : PermName(p) = name
       THEN same(400, "Permission with this name already exists")
       ELSE IF ~validates
       THEN same(500, "Permission validation failed")
       ELSE [out |-> Respond(NoOutcome, 201, "Permission created successfully"),
             permissionDocs |-> [permissionDocs EXCEPT
                                   ![id] = [state |-> "exists", isSystemPermission |-> FALSE]]]

\* deletePermission
deletePermission(id) ==
    LET same(code, msg) == [out |-> Respond(NoOutcome, code, msg), permissionDocs |-> permissionDocs]
        p == CastObjectId(id)
    IN IF ~isValidObjectId(id) THEN same(500, "Cast to ObjectId failed")
       ELSE IF p \notin ExistingPermissions THEN same(404, "Permission not found")
       ELSE IF permissionDocs[p].isSystemPermission
       THEN same(403, "System permissions cannot be deleted")
       ELSE IF RolesUsingPermission(p) # {}
       THEN same(400, "Cannot delete permission. It is being used by one or more roles.")
       ELSE IF UsersWithCustomPermission(p) # {}
       THEN same(400, "Cannot delete permission. It is being used in user custom permissions.")
       ELSE [out |-> Respond(NoOutcome, 200, "Permission deleted successfully"),
             permissionDocs |-> [permissionDocs EXCEPT ![p].state = "deleted"]]

\* createRole for a role document that gets the id newId.
createRole(name, permissions, newId) ==
    LET same(code, msg) == [out |-> Respond(NoOutcome, code, msg), roleDocs |-> roleDocs]
    IN IF RolesNamed(name) # {} THEN same(400, "Role with this name already exists")
       ELSE IF \E i \in 1..Len(permissions) : ~isValidObjectId(permissions[i])
       THEN same(400, "Invalid permission IDs provided")
       ELSE IF Cardinality(FindPermissions(permissions)) # Len(permissions)
       THEN same(400, "Some permissions do not exist")
       ELSE [out |-> Respond(NoOutcome, 201, "Role created successfully"),
             roleDocs |-> [roleDocs EXCEPT
                             ![newId] = [state |-> "exists", name |-> name,
                                         permissions |-> CastAll(permissions),
                                         isSystemRole |-> FALSE]]]

\* Variant: a role deleted without asking which users hold it.
deleteRoleUnchecked(id) ==
    LET same(code, msg) == [out |-> Respond(NoOutcome, code, msg), roleDocs |-> roleDocs]
    IN IF ~isValidObjectId(id) THEN same(400, "Invalid role ID")
       ELSE IF id \notin ExistingRoles THEN same(404, "Role not found")
       ELSE IF roleDocs[id].isSystemRole THEN same(403, "System roles cannot be deleted")
       ELSE [out |-> Respond(NoOutcome, 200, "Role deleted successfully"),
             roleDocs |-> [roleDocs EXCEPT ![id] = [FreeRole EXCEPT !.state = "deleted"]]]

\* deleteRole
deleteRole(id) ==
    LET same(code, msg) == [out |-> Respond(NoOutcome, code, msg), roleDocs |-> roleDocs]
    IN IF ~isValidObjectId(id) THEN same(400, "Invalid role ID")
       ELSE IF id \notin ExistingRoles THEN same(404, "Role not found")
       ELSE IF roleDocs[id].isSystemRole THEN same(403, "System roles cannot be deleted")
       ELSE IF UsersWithRole(id) # {}
       THEN same(400, "Cannot delete role. It is assigned to one or more users.")
       ELSE [out |-> Respond(NoOutcome, 200, "Role deleted successfully"),
             roleDocs |-> [roleDocs EXCEPT ![id] = [FreeRole EXCEPT !.state = "deleted"]]]

\* addPermissionsToRole
addPermissionsToRole(id, permissions, callerRoleName) ==
    LET same(code, msg) == [out |-> Respond(NoOutcome, code, msg), roleDocs |-> roleDocs]
    IN IF ~isValidObjectId(id) THEN same(400, "Invalid role ID")
       ELSE IF Len(permissions) = 0 THEN same(400, "Permissions array is required")
       ELSE IF \E i \in 1..Len(permissions) : ~isValidObjectId(permissions[i])
       THEN same(400, "Invalid permission IDs provided")
       ELSE IF id \notin ExistingRoles THEN same(404, "Role not found")
       ELSE IF roleDocs[id].isSystemRole /\ callerRoleName # "SuperAdmin"
       THEN same(403, "Only SuperAdmin can modify system roles")
       ELSE IF Cardinality(FindPermissions(permissions)) # Len(permissions)
       THEN same(400, "Some permissions do not exist")
       ELSE IF Len(NotYetIn(permissions, roleDocs[id].permissions)) = 0
       THEN same(400, "All specified permissions are already assigned to this role")
       ELSE [out |-> Respond(NoOutcome, 200, "permissions added to role successfully"),
             roleDocs |-> [roleDocs EXCEPT ![id].permissions =
                             @ \o CastAll(NotYetIn(permissions, roleDocs[id].permissions))]]

\* updateRole on the Role collection, for the name and permissions fields of
\* the body: name is "" when the body has none, withPermissions tells
\* whether the body has a permissions array.
updateRoleStored(id, name, withPermissions, permissions) ==
    LET same(code, msg) == [out |-> Respond(NoOutcome, code, msg), roleDocs |-> roleDocs]
    IN IF ~isValidObjectId(id) THEN same(400, "Invalid role ID")
       ELSE IF id \notin ExistingRoles THEN same(404, "Role not found")
       ELSE IF roleDocs[id].isSystemRole THEN same(403, "System roles cannot be modified")
       ELSE IF name # "" /\ RolesNamed(name) \ {id} # {}
       THEN same(400, "Role with this name already exists")
       ELSE IF withPermissions /\ \E i \in 1..Len(permissions) : ~isValidObjectId(permissions[i])
       THEN same(400, "Invalid permission IDs provided")
       ELSE IF withPermissions /\ Cardinality(FindPermissions(permissions)) # Len(permissions)
       THEN same(400, "Some permissions do not exist")
       ELSE [out |-> Respond(NoOutcome, 200, "Role updated successfully"),
             roleDocs |-> [roleDocs EXCEPT
                             ![id].name = IF name # "" THEN name ELSE @,
                             ![id].permissions = IF withPermissions
                                                 THEN CastAll(permissions) ELSE @]]

\* Variant: the permissions of a system role taken away for any caller.
removePermissionsFromRoleUnguarded(id, permissions, callerRoleName) ==
    LET same(code, msg) == [out |-> Respond(NoOutcome, code, msg), roleDocs |-> roleDocs]
    IN IF ~isValidObjectId(id) THEN same(400, "Invalid role ID")
       ELSE IF Len(permissions) = 0 THEN same(400, "Permissions array is required")
       ELSE IF id \notin ExistingRoles THEN same(404, "Role not found")
       ELSE IF WithoutBody(roleDocs[id].permissions, permissions) = roleDocs[id].permissions
       THEN same(400, "None of the specified permissions were found in this role")
       ELSE [out |-> Respond(NoOutcome, 200, "permissions removed from role successfully"),
             roleDocs |-> [roleDocs EXCEPT ![id].permissions = WithoutBody(@, permissions)]]

\* removePermissionsFromRole
removePermissionsFromRole(id, permissions, callerRoleName) ==
    LET same(code, msg) == [out |-> Respond(NoOutcome, code, msg), roleDocs |-> roleDocs]
    IN IF ~isValidObjectId(id) THEN same(400, "Invalid role ID")
       ELSE IF Len(permissions) = 0 THEN same(400, "Permissions array is required")
       ELSE IF id \notin ExistingRoles THEN same(404, "Role not found")
       ELSE IF roleDocs[id].isSystemRole /\ callerRoleName # "SuperAdmin"
       THEN same(403, "Only SuperAdmin can modify system roles")
       ELSE IF WithoutBody(roleDocs[id].permissions, permissions) = roleDocs[id].permissions
       THEN same(400, "None of the specified permissions were found in this role")
       ELSE [out |-> Respond(NoOutcome, 200, "permissions removed from role successfully"),
             roleDocs |-> [roleDocs EXCEPT ![id].permissions = WithoutBody(@, permissions)]]

\* A request to the permission controller.
PermissionRequest(handler, input, r) ==
    /\ Fresh
    /\ req' = [handler |-> handler, input |-> input]
    /\ out' = r.out
    /\ permissionDocs' = r.permissionDocs
    /\ UNCHANGED <<AuthzData, SecurityData, roleDocs, userDocs>>

\* A request to the role controller.
RoleRequest(handler, id, permissions, r) ==
    /\ Fresh
    /\ req' = [handler |-> handler, id |-> id, permissions |-> permissions]
    /\ out' = r.out
    /\ roleDocs' = r.roleDocs
    /\ UNCHANGED <<AuthzData, SecurityData, permissionDocs, userDocs>>

\* POST /api/permissions
CreatePermission(name, validates) ==
    /\ \E p \in PermIds : PermName(p) = name /\ permissionDocs[p].state # "deleted"
    /\ PermissionRequest("createPermission", name, createPermission(name, validates))

\* DELETE /api/permissions/:id
DeletePermission(id) ==
    PermissionRequest("deletePermission", id, deletePermission(id))

\* POST /api/roles
CreateRole(name, permissions) ==
    \E newId \in FreeIds(roleDocs) :
       RoleRequest("createRole", name, permissions, createRole(name, permissions, newId))

\* DELETE /api/roles/:id
DeleteRole(id) ==
    RoleRequest("deleteRole", id, <<>>, deleteRole(id))

\* POST /api/roles/:id/permissions
AddPermissionsToRole(id, permissions, callerRoleName) ==
    RoleRequest("addPermissionsToRole", id, permissions,
                addPermissionsToRole(id, permissions, callerRoleName))

\* DELETE /api/roles/:id/permissions
RemovePermissionsFromRole(id, permissions, callerRoleName) ==
    RoleRequest("removePermissionsFromRole", id, permissions,
                removePermissionsFromRole(id, permissions, callerRoleName))

---------------------------------------------------------------------------
\* The catalog specification: one seeded system permission, one permission
\* an administrator added, one id not issued yet; the seeded roles hold the
\* system permission and the stored user has no override.

CatalogPermissions ==
    [p \in PermIds |->
        CASE p = "p1" -> [state |-> "exists", isSystemPermission |-> TRUE]
          [] p = "p2" -> [state |-> "exists", isSystemPermission |-> FALSE]
          [] OTHER -> FreePermission]
CatalogRoles ==
    [r \in RoleIds |->
        IF SeededRoles[r].state = "exists"
        THEN [SeededRoles[r] EXCEPT !.permissions = <<"p1">>]
        ELSE FreeRole]
\* The ids the request bodies of this specification name.
CatalogBodyIds == {"p2", "p3"}

InitCatalog ==
    /\ role = [SeedRole EXCEPT !.permissions = <<"p1">>]
    /\ granted = <<>>
    /\ revoked = <<>>
    /\ isActive = TRUE
    /\ loginAttempts = 0
    /\ lockUntil = NoLock
    /\ now = 0
    /\ req = [handler |-> "none"]
    /\ out = NoOutcome
    /\ permissionDocs = CatalogPermissions
    /\ roleDocs = CatalogRoles
    /\ userDocs = OneUser

NextCatalog ==
    \/ \E name \in PermNames, validates \in BOOLEAN : CreatePermission(name, validates)
    \/ \E id \in PermIds : DeletePermission(id)
    \/ \E permissions \in SeqsUpTo(CatalogBodyIds, MaxCatalogBody) :
          \/ CreateRole("Editor", permissions)
          \/ AddPermissionsToRole("r3", permissions, "Editor")
          \/ RemovePermissionsFromRole("r3", permissions, "Editor")
          \/ GrantCustomPermissions(TheUser, permissions)
          \/ RevokeCustomPermissions(TheUser, permissions)
          \/ RemoveCustomPermissions(TheUser, permissions)
    \/ DeleteRole("r3")
    \/ NextRequest

SpecCatalog == InitCatalog /\ [][NextCatalog]_vars

---------------------------------------------------------------------------
\* Users and their role: register (auth controller), createUser and
\* assignRole (user controller). Each operator gives the response and the
\* User collection as the handler leaves it.

\* register for a user document that gets the id newId; emailTaken: a
\* user with this email exists.
register(emailTaken, newId) ==
    LET same(code, msg) == [out |-> Respond(NoOutcome, code, msg), userDocs |-> userDocs]
        userCount == Cardinality(ExistingUsers)
        name == IF userCount = 0 THEN "SuperAdmin" ELSE "User"
    IN IF emailTaken THEN same(400, "User with this email already exists")
       ELSE IF RolesNamed(name) = {}
       THEN same(500, IF userCount = 0
                      THEN "SuperAdmin role not found. Please run database seeding first."
                      ELSE "Default user role not found. Please check database configuration.")
       ELSE [out |-> Respond(NoOutcome, 201, "User registered successfully"),
             userDocs |-> [userDocs EXCEPT
                             ![newId] = [state |-> "exists",
                                         role |-> CHOOSE r \in RolesNamed(name) : TRUE]]]

\* createUser
createUser(emailTaken, roleId, newId) ==
    LET same(code, msg) == [out |-> Respond(NoOutcome, code, msg), userDocs |-> userDocs]
    IN IF ~isValidObjectId(roleId) THEN same(400, "Invalid role ID")
       ELSE IF emailTaken THEN same(400, "User with this email already exists")
       ELSE IF roleId \notin ExistingRoles THEN same(400, "Role not found")
       ELSE [out |-> Respond(NoOutcome, 201, "User created successfully"),
             userDocs |-> [userDocs EXCEPT ![newId] = [state |-> "exists", role |-> roleId]]]

\* assignRole
assignRole(id, roleId, callerRoleName) ==
    LET same(code, msg) == [out |-> Respond(NoOutcome, code, msg), userDocs |-> userDocs]
    IN IF ~isValidObjectId(id) \/ ~isValidObjectId(roleId)
       THEN same(400, "Invalid user ID or role ID")
       ELSE IF id \notin ExistingUsers THEN same(404, "User not found")
       ELSE IF roleId \notin ExistingRoles THEN same(400, "Role not found")
       ELSE IF roleDocs[roleId].name = "SuperAdmin" /\ callerRoleName # "SuperAdmin"
       THEN same(403, "Only SuperAdmin can assign SuperAdmin role")
       ELSE [out |-> Respond(NoOutcome, 200, "Role assigned successfully"),
             userDocs |-> [userDocs EXCEPT ![id].role = roleId]]

\* A request that writes the User collection.
UserRequest(handler, id, roleId, r) ==
    /\ Fresh
    /\ req' = [handler |-> handler, id |-> id, roleId |-> roleId]
    /\ out' = r.out
    /\ userDocs' = r.userDocs
    /\ UNCHANGED <<AuthzData, SecurityData, permissionDocs, roleDocs>>

\* POST /api/auth/register
Register(emailTaken) ==
    /\ emailTaken => ExistingUsers # {}
    /\ \E newId \in FreeIds(userDocs) :
          UserRequest("register", newId, NoRoleId, register(emailTaken, newId))

\* The role name of an authenticated caller.
CallerRoleName(caller) ==
    IF userDocs[caller].role \in ExistingRoles
    THEN roleDocs[userDocs[caller].role].name
    ELSE "none"

\* POST /api/users
CreateUser(emailTaken, roleId) ==
    \E newId \in FreeIds(userDocs) :
       UserRequest("createUser", newId, roleId, createUser(emailTaken, roleId, newId))

\* PUT /api/users/:id/role
AssignRole(id, roleId, caller) ==
    UserRequest("assignRole", id, roleId, assignRole(id, roleId, CallerRoleName(caller)))

\* The database before seeding, and seeded with no user registered yet.
NoPermissions == [p \in PermIds |-> FreePermission]
NoRoles == [r \in RoleIds |-> FreeRole]
NoUsers == [u \in UserIds |-> FreeUser]

InitRoles ==
    /\ role = SeedRole
    /\ granted = <<>>
    /\ revoked = <<>>
    /\ isActive = TRUE
    /\ loginAttempts = 0
    /\ lockUntil = NoLock
    /\ now = 0
    /\ req = [handler |-> "none"]
    /\ out = NoOutcome
    /\ \/ permissionDocs = SeededPermissions /\ roleDocs = SeededRoles
       \/ permissionDocs = NoPermissions /\ roleDocs = NoRoles
    /\ userDocs = NoUsers

\* Every request but register comes from an authenticated user.
Authenticated == ExistingUsers # {}

NextRoles ==
    \/ \E emailTaken \in BOOLEAN : Register(emailTaken)
    \/ \E emailTaken \in BOOLEAN, roleId \in RoleIds \cup {InvalidId} :
          Authenticated /\ CreateUser(emailTaken, roleId)
    \/ \E caller \in ExistingUsers, id \in UserIds \cup {UnknownUser},
          roleId \in RoleIds \cup {InvalidId} :
          AssignRole(id, roleId, caller)
    \/ Authenticated /\ CreateRole("Editor", <<>>)
    \/ \E id \in RoleIds \cup {InvalidId} : Authenticated /\ DeleteRole(id)
    \/ NextRequest

SpecRoles == InitRoles /\ [][NextRoles]_vars

---------------------------------------------------------------------------
\* Registrations with different emails in flight at the same time: the
\* steps of register between which the handler awaits the database.

Registrants == {"g1", "g2", "g3"}

\* User.findOne({ email })
CheckEmail(g, emailTaken) ==
    /\ req.pc[g] = "start"
    /\ emailTaken => ExistingUsers # {}
    /\ req' = [req EXCEPT !.pc[g] = IF emailTaken THEN "done" ELSE "checked"]
    /\ out' = [out EXCEPT ![g] =
                 IF emailTaken
                 THEN Respond(NoOutcome, 400, "User with this email already exists")
                 ELSE NoOutcome]
    /\ UNCHANGED <<AuthzData, isActive, loginAttempts, lockUntil, now, Collections>>

\* User.countDocuments()
CountUsers(g) ==
    /\ req.pc[g] = "checked"
    /\ req' = [req EXCEPT !.pc[g] = "counted",
                          !.userCount[g] = Cardinality(ExistingUsers)]
    /\ UNCHANGED <<out, AuthzData, isActive, loginAttempts, lockUntil, now, Collections>>

\* Role.findOne({ name }) for the role the count selects.
FindRole(g) ==
    /\ req.pc[g] = "counted"
    /\ LET name == IF req.userCount[g] = 0 THEN "SuperAdmin" ELSE "User"
           missing == RolesNamed(name) = {}
       IN /\ req' = [req EXCEPT !.pc[g] = IF missing THEN "done" ELSE "found",
                                !.role[g] = IF missing THEN NoRoleId
                                            ELSE CHOOSE r \in RolesNamed(name) : TRUE]
          /\ out' = [out EXCEPT ![g] =
                       IF ~missing THEN NoOutcome
                       ELSE Respond(NoOutcome, 500,
                              IF req.userCount[g] = 0
                              THEN "SuperAdmin role not found. Please run database seeding first."
                              ELSE "Default user role not found. Please check database configuration.")]
    /\ UNCHANGED <<AuthzData, isActive, loginAttempts, lockUntil, now, Collections>>

\* User.create({ ..., role: defaultRole._id }) and the 201.
CreateRegistered(g) ==
    /\ req.pc[g] = "found"
    /\ \E newId \in FreeIds(userDocs) :
          /\ userDocs' = [userDocs EXCEPT ![newId] = [state |-> "exists", role |-> req.role[g]]]
          /\ req' = [req EXCEPT !.pc[g] = "done", !.id[g] = newId]
    /\ out' = [out EXCEPT ![g] = Respond(NoOutcome, 201, "User registered successfully")]
    /\ UNCHANGED <<AuthzData, isActive, loginAttempts, lockUntil, now, permissionDocs, roleDocs>>

InitRegistrations ==
    /\ role = SeedRole
    /\ granted = <<>>
    /\ revoked = <<>>
    /\ isActive = TRUE
    /\ loginAttempts = 0
    /\ lockUntil = NoLock
    /\ now = 0
    /\ req = [handler |-> "registrations",
              pc |-> [g \in Registrants |-> "start"],
              userCount |-> [g \in Registrants |-> 0],
              role |-> [g \in Registrants |-> NoRoleId],
              id |-> [g \in Registrants |-> NoUser]]
    /\ out = [g \in Registrants |-> NoOutcome]
    /\ \/ permissionDocs = SeededPermissions /\ roleDocs = SeededRoles
       \/ permissionDocs = NoPermissions /\ roleDocs = NoRoles
    /\ userDocs = NoUsers

NextRegistrations ==
    \/ \E g \in Registrants, emailTaken \in BOOLEAN : CheckEmail(g, emailTaken)
    \/ \E g \in Registrants : CountUsers(g)
    \/ \E g \in Registrants : FindRole(g)
    \/ \E g \in Registrants : CreateRegistered(g)

SpecRegistrations == InitRegistrations /\ [][NextRegistrations]_vars

---------------------------------------------------------------------------
\* Management routes: router.use(authenticate), then canManageRoles or
\* canManageUsers, then the controller. The caller is the principal
\* authenticate attached to the request, or nobody.

\* Variant: the gate asking for a permission every user holds.
canManageUsersReaders(u) ==
    requirePermissions(u, <<"post.read">>, FALSE, TRUE, FALSE)

\* canManageUsers
canManageUsers(u) ==
    requirePermissions(u, <<"user.create", "user.update", "user.delete">>, FALSE, TRUE, FALSE)

\* canManageRoles
canManageRoles(u) ==
    requirePermissions(u, <<"role.create", "role.update", "role.delete">>, FALSE, TRUE, FALSE)

CallerId == "u0"

\* The role documents a caller comes with.
SuperAdminRole ==
    [name |-> "SuperAdmin", permissions |-> <<"p1", "p2", "p3">>, isSystemRole |-> TRUE,
     isActive |-> TRUE, loaded |-> TRUE]
ManagerRole ==
    [name |-> "Manager", permissions |-> <<"p4", "p5">>, isSystemRole |-> FALSE,
     isActive |-> TRUE, loaded |-> TRUE]

Anonymous ==
    [attached |-> FALSE, id |-> NoUser, role |-> NoRole, granted |-> <<>>, revoked |-> <<>>]

\* An authenticated caller.
Caller(r, g, v) ==
    [attached |-> TRUE, id |-> CallerId, role |-> r, granted |-> g, revoked |-> v]

\* Nobody, a SuperAdmin, a manager, a manager whose management permissions
\* are revoked, a plain user, and plain users granted one management
\* permission.
Callers ==
    {Anonymous,
     Caller(SuperAdminRole, <<>>, <<>>),
     Caller(ManagerRole, <<>>, <<>>),
     Caller(ManagerRole, <<>>, <<"p4", "p5">>),
     Caller(SeedRole, <<>>, <<>>),
     Caller(SeedRole, <<"p4">>, <<>>),
     Caller(SeedRole, <<"p5">>, <<>>)}

\* router.use(authenticate) on the request of a caller.
Session(caller) ==
    IF caller.attached
    THEN CallNext([NoOutcome EXCEPT !.user = caller.id])
    ELSE authenticate("none", FALSE, FALSE, NoLock, 0)

\* The answer of a managed route: the controller's when the session and the
\* gate let the request through, theirs otherwise.
Managed(caller, gate, controller) == Route(Session(caller), Route(gate, controller))
Admitted(caller, gate) == Session(caller).next /\ gate.next

\* The stored role a request names, FreeRole when it names none.
StoredRole(id) == IF id \in RoleIds THEN roleDocs[id] ELSE FreeRole

\* A request to a route behind canManageRoles; r is what the controller
\* would answer and store.
ManagedRoleRequest(handler, caller, id, name, permissions, r) ==
    /\ Fresh
    /\ req' = [handler |-> handler, caller |-> caller, id |-> id, name |-> name,
               permissions |-> permissions, doc |-> StoredRole(id)]
    /\ out' = Managed(caller, canManageRoles(caller), r.out)
    /\ roleDocs' = IF Admitted(caller, canManageRoles(caller)) THEN r.roleDocs ELSE roleDocs
    /\ UNCHANGED <<AuthzData, SecurityData, permissionDocs, userDocs>>

\* PUT /api/roles/:id
UpdateRoleRoute(caller, id, name, withPermissions, permissions) ==
    ManagedRoleRequest("updateRole", caller, id, name,
                       IF withPermissions THEN permissions ELSE <<>>,
                       updateRoleStored(id, name, withPermissions, permissions))

\* DELETE /api/roles/:id
DeleteRoleRoute(caller, id) ==
    ManagedRoleRequest("deleteRole", caller, id, "", <<>>, deleteRole(id))

\* POST /api/roles/:id/permissions
AddPermissionsToRoleRoute(caller, id, permissions) ==
    ManagedRoleRequest("addPermissionsToRole", caller, id, "", permissions,
                       addPermissionsToRole(id, permissions, caller.role.name))

\* DELETE /api/roles/:id/permissions
RemovePermissionsFromRoleRoute(caller, id, permissions) ==
    ManagedRoleRequest("removePermissionsFromRole", caller, id, "", permissions,
                       removePermissionsFromRole(id, permissions, caller.role.name))

\* The seeded roles and a custom one.
RolesWithEditor ==
    [SeededRoles EXCEPT !["r3"] = [state |-> "exists", name |-> "Editor",
                                   permissions |-> <<"p1", "p2">>, isSystemRole |-> FALSE]]

\* The permissions arrays in the body of a request to a managed route.
RouteBodies == {<<>>, <<"p1">>, <<"p2">>}
RouteNames == {"", "User", "Author"}

InitRoleRoutes ==
    /\ role = SeedRole
    /\ granted = <<>>
    /\ revoked = <<>>
    /\ isActive = TRUE
    /\ loginAttempts = 0
    /\ lockUntil = NoLock
    /\ now = 0
    /\ req = [handler |-> "none"]
    /\ out = NoOutcome
    /\ permissionDocs = SeededPermissions
    /\ roleDocs = RolesWithEditor
    /\ userDocs = OneUser

NextRoleRoutes ==
    \/ \E caller \in Callers, id \in RoleIds \cup {InvalidId}, name \in RouteNames,
          withPermissions \in BOOLEAN, permissions \in RouteBodies :
          /\ withPermissions \/ permissions = <<>>
          /\ UpdateRoleRoute(caller, id, name, withPermissions, permissions)
    \/ \E caller \in Callers, id \in RoleIds \cup {InvalidId} : DeleteRoleRoute(caller, id)
    \/ \E caller \in Callers, id \in RoleIds \cup {InvalidId},
          permissions \in RouteBodies :
          AddPermissionsToRoleRoute(caller, id, permissions)
    \/ \E caller \in Callers, id \in RoleIds \cup {InvalidId},
          permissions \in RouteBodies :
          RemovePermissionsFromRoleRoute(caller, id, permissions)
    \/ NextRequest

SpecRoleRoutes == InitRoleRoutes /\ [][NextRoleRoutes]_vars

---------------------------------------------------------------------------
\* The user-override routes behind canManageUsers.

\* A request to an override route; r is what the controller would answer
\* and store.
ManagedOverride(handler, caller, id, permissions, r) ==
    /\ Fresh
    /\ Len(r.granted) <= MaxList
    /\ Len(r.revoked) <= MaxList
    /\ req' = [handler |-> handler, caller |-> caller, id |-> id,
               permissions |-> permissions,
               doc |-> [granted |-> granted, revoked |-> revoked]]
    /\ out' = Managed(caller, canManageUsers(caller), r.out)
    /\ granted' = IF Admitted(caller, canManageUsers(caller)) THEN r.granted ELSE granted
    /\ revoked' = IF Admitted(caller, canManageUsers(caller)) THEN r.revoked ELSE revoked
    /\ UNCHANGED <<role, SecurityData, Collections>>

\* POST /api/users/:id/permissions/grant
GrantRoute(caller, id, permissions) ==
    ManagedOverride("grantCustomPermissions", caller, id, permissions,
                    grantCustomPermissions(id, permissions, FindUser(id)))

\* POST /api/users/:id/permissions/revoke
RevokeRoute(caller, id, permissions) ==
    ManagedOverride("revokeCustomPermissions", caller, id, permissions,
                    revokeCustomPermissions(id, permissions, FindUser(id)))

\* DELETE /api/users/:id/permissions
RemoveRoute(caller, id, permissions) ==
    ManagedOverride("removeCustomPermissions", caller, id, permissions,
                    removeCustomPermissions(id, permissions, FindUser(id)))

NextOverrideRoutes ==
    \/ \E caller \in Callers, id \in {TheUser, UnknownUser}, permissions \in RouteBodies :
          GrantRoute(caller, id, permissions)
    \/ \E caller \in Callers, id \in {TheUser, UnknownUser}, permissions \in RouteBodies :
          RevokeRoute(caller, id, permissions)
    \/ \E caller \in Callers, id \in {TheUser, UnknownUser}, permissions \in RouteBodies :
          RemoveRoute(caller, id, permissions)
    \/ NextRequest

SpecOverrideRoutes == InitSession /\ [][NextOverrideRoutes]_vars

---------------------------------------------------------------------------
\* The user routes that give a user a role, behind canManageUsers.

\* A request to a user route; r is what the controller would answer and
\* store.
ManagedUserRequest(handler, caller, id, roleId, r) ==
    /\ Fresh
    /\ req' = [handler |-> handler, caller |-> caller, id |-> id, roleId |-> roleId]
    /\ out' = Managed(caller, canManageUsers(caller), r.out)
    /\ userDocs' = IF Admitted(caller, canManageUsers(caller)) THEN r.userDocs ELSE userDocs
    /\ UNCHANGED <<AuthzData, SecurityData, permissionDocs, roleDocs>>

\* POST /api/users
CreateUserRoute(caller, emailTaken, roleId) ==
    \E newId \in FreeIds(userDocs) :
       ManagedUserRequest("createUser", caller, newId, roleId,
                          createUser(emailTaken, roleId, newId))

\* PUT /api/users/:id/role
AssignRoleRoute(caller, id, roleId) ==
    ManagedUserRequest("assignRole", caller, id, roleId,
                       assignRole(id, roleId, caller.role.name))

NextUserRoutes ==
    \/ \E caller \in Callers, emailTaken \in BOOLEAN, roleId \in RoleIds \cup {InvalidId} :
          CreateUserRoute(caller, emailTaken, roleId)
    \/ \E caller \in Callers, id \in UserIds \cup {UnknownUser},
          roleId \in RoleIds \cup {InvalidId} :
          AssignRoleRoute(caller, id, roleId)
    \/ NextRequest

SpecUserRoutes == InitRoleRoutes /\ [][NextUserRoutes]_vars

---------------------------------------------------------------------------
\* Requests of the users holding a role while an administrator changes the
\* role's permission list and the overrides of the first user. The variable
\* role holds the role document populated for the latest request.

\* Variant: the role document populated for an earlier request used again.
PopulateRoleOnce(u) ==
    IF role.loaded
    THEN role
    ELSE IF u \in ExistingUsers /\ userDocs[u].role \in ExistingRoles
    THEN [name |-> roleDocs[userDocs[u].role].name,
          permissions |-> roleDocs[userDocs[u].role].permissions,
          isSystemRole |-> roleDocs[userDocs[u].role].isSystemRole,
          isActive |-> TRUE, loaded |-> TRUE]
    ELSE NoRole

\* authenticate: User.findById(decoded.userId).populate(role), read from the
\* collections when the request arrives.
PopulateRole(u) ==
    IF u \in ExistingUsers /\ userDocs[u].role \in ExistingRoles
    THEN [name |-> roleDocs[userDocs[u].role].name,
          permissions |-> roleDocs[userDocs[u].role].permissions,
          isSystemRole |-> roleDocs[userDocs[u].role].isSystemRole,
          isActive |-> TRUE, loaded |-> TRUE]
    ELSE NoRole

\* req.user for the stored user u: the overrides are those of the first
\* user; the others have none.
StoredPrincipal(u) ==
    [attached |-> TRUE, id |-> u, role |-> PopulateRole(u),
     granted |-> IF u = TheUser THEN granted ELSE <<>>,
     revoked |-> IF u = TheUser THEN revoked ELSE <<>>]

\* A request of user u to a route behind requirePermissions.
AuthorizedRequest(u, permissions, requireAll) ==
    /\ Fresh
    /\ req' = [handler |-> "authenticate, requirePermissions", user |-> u,
               permissions |-> permissions, requireAll |-> requireAll]
    /\ role' = StoredPrincipal(u).role
    /\ out' = requirePermissions(StoredPrincipal(u), permissions, requireAll, TRUE, FALSE)
    /\ UNCHANGED <<granted, revoked, SecurityData, Collections>>

\* Two users holding the custom role.
TwoEditors ==
    [u \in UserIds |-> IF u \in {TheUser, "u2"} THEN [state |-> "exists", role |-> "r3"]
                       ELSE FreeUser]

FreshBodies == {<<"p1">>, <<"p3">>}

InitFresh ==
    /\ role = NoRole
    /\ granted = <<>>
    /\ revoked = <<>>
    /\ isActive = TRUE
    /\ loginAttempts = 0
    /\ lockUntil = NoLock
    /\ now = 0
    /\ req = [handler |-> "none"]
    /\ out = NoOutcome
    /\ permissionDocs = SeededPermissions
    /\ roleDocs = RolesWithEditor
    /\ userDocs = TwoEditors

NextFresh ==
    \/ \E u \in {TheUser, "u2"}, permissions \in NoDupSeqs(PermNames, MaxRequired),
          requireAll \in BOOLEAN :
          AuthorizedRequest(u, permissions, requireAll)
    \/ \E permissions \in FreshBodies : AddPermissionsToRole("r3", permissions, "SuperAdmin")
    \/ \E permissions \in FreshBodies : RemovePermissionsFromRole("r3", permissions, "SuperAdmin")
    \/ \E permissions \in FreshBodies : GrantCustomPermissions(TheUser, permissions)
    \/ \E permissions \in FreshBodies : RevokeCustomPermissions(TheUser, permissions)
    \/ NextRequest

SpecFresh == InitFresh /\ [][NextFresh]_vars

---------------------------------------------------------------------------
\* The session path: routes made of a session middleware and a controller
\* that resolves the permissions of the attached principal.

\* GET /api/auth/profile: authenticate, getProfile
ProfileRoute(token) ==
    /\ out' = Route(authenticate(token, TokenUser(token) = TheUser, isActive, lockUntil, now),
                    getProfile(Principal(TRUE)))
    /\ req' = [handler |-> "GET /api/auth/profile", token |-> token, fault |-> FALSE,
               at |-> now, doc |-> Loaded]
    /\ UNCHANGED <<isActive, loginAttempts, lockUntil, now, AuthzData, Collections>>

\* GET /api/posts: optionalAuth, getPosts
PostsRoute(token, fault) ==
    /\ LET o == optionalAuth(token, TokenUser(token) = TheUser, isActive, lockUntil, now, fault)
       IN out' = Route(o, getPosts(o.user = TheUser, Principal(TRUE)))
    /\ req' = [handler |-> "GET /api/posts", token |-> token, fault |-> fault,
               at |-> now, doc |-> Loaded]
    /\ UNCHANGED <<isActive, loginAttempts, lockUntil, now, AuthzData, Collections>>

NextSessionPath ==
    \/ NextSession
    \/ \E token \in Tokens : ProfileRoute(token)
    \/ \E token \in Tokens, fault \in BOOLEAN : PostsRoute(token, fault)

SpecSessionPath == InitSession /\ [][NextSessionPath]_vars

---------------------------------------------------------------------------
\* Properties of the resolver and of the policy middlewares (SpecAuthz).

\* (role.permissions UNION granted) MINUS revoked, as ids and as names.
RolePermissionIds == IF role.loaded THEN Range(role.permissions) ELSE {}
EffectiveIds == (RolePermissionIds \cup Range(granted)) \ Range(revoked)
EffectiveNames == {PermName(p) : p \in EffectiveIds}
IsSuperAdmin == role.loaded /\ role.name = "SuperAdmin"

\* C1: for a principal with its role loaded, getAllPermissions returns
\* exactly (role.permissions UNION granted) MINUS revoked, and
\* hasPermission(name) is true iff a permission of that name is in the set.
C1_ResolveIsUnionMinusRevoked ==
    role.loaded =>
      /\ req.handler = "getProfile" =>
           {out.permissions[i].id : i \in 1..Len(out.permissions)} = EffectiveIds
      /\ req.handler = "hasPermission" =>
           (out.has <=> req.permissionName \in EffectiveNames)

\* A permission that is in the role, in granted and in revoked was resolved
\* and is not in the result, which holds other permissions.
C1_Witness ==
    /\ req.handler = "getProfile"
    /\ role.loaded
    /\ \E p \in PermIds :
          /\ p \in RolePermissionIds /\ p \in Range(granted) /\ p \in Range(revoked)
          /\ \A i \in 1..Len(out.permissions) : out.permissions[i].id # p
    /\ Len(out.permissions) > 0

\* C2: with allowSuperAdmin, requirePermissions admits every authenticated
\* principal whose role name is SuperAdmin, whatever its permissions, and
\* does so without calling getAllPermissions.
C2_SuperAdminBypass ==
    (/\ req.handler = "requirePermissions"
     /\ req.attached
     /\ req.allowSuperAdmin
     /\ IsSuperAdmin)
    => /\ out.next
       /\ out.status = 0
       /\ "getAllPermissions" \notin out.calls

\* A SuperAdmin with an empty effective set, the required permission
\* revoked, is admitted; even a storage fault does not matter.
C2_Witness ==
    /\ req.handler = "requirePermissions"
    /\ req.attached /\ req.allowSuperAdmin /\ IsSuperAdmin
    /\ EffectiveIds = {}
    /\ Len(req.permissions) > 0
    /\ \E p \in Range(revoked) : PermName(p) = req.permissions[1]
    /\ out.next

\* C3: without the bypass, requirePermissions with requireAll admits iff
\* every required permission is effective, and without requireAll iff at
\* least one is.
C3_RequireAllOrAny ==
    (/\ req.handler = "requirePermissions"
     /\ req.attached
     /\ role.loaded
     /\ ~(req.allowSuperAdmin /\ IsSuperAdmin)
     /\ ~req.populateFails)
    => (out.next <=>
          IF req.requireAll
          THEN \A n \in Range(req.permissions) : n \in EffectiveNames
          ELSE \E n \in Range(req.permissions) : n \in EffectiveNames)

\* requireAll with two required permissions, one of them missing: denied,
\* where any-of would have admitted.
C3_Witness ==
    /\ req.handler = "requirePermissions"
    /\ req.attached /\ role.loaded /\ ~req.populateFails
    /\ ~(req.allowSuperAdmin /\ IsSuperAdmin)
    /\ req.requireAll
    /\ Len(req.permissions) = 2
    /\ req.permissions[1] \in EffectiveNames
    /\ req.permissions[2] \notin EffectiveNames
    /\ out.status = 403

\* C9: requireRoles(R) admits an authenticated principal iff its role name
\* is in R; every other one, SuperAdmin included, is rejected with 403.
C9_RequireRoles ==
    (req.handler = "requireRoles" /\ req.attached)
    => /\ out.next <=> (role.loaded /\ role.name \in Range(req.roles))
       /\ ~out.next => out.status = 403

\* A SuperAdmin rejected by a role list that does not name SuperAdmin.
C9_Witness ==
    /\ req.handler = "requireRoles"
    /\ req.attached
    /\ IsSuperAdmin
    /\ Len(req.roles) > 0
    /\ "SuperAdmin" \notin Range(req.roles)
    /\ out.status = 403
    /\ ~out.next

\* C10: requireOwnershipOrPermission admits an authenticated request iff
\* the principal is SuperAdmin, or holds one of the override permissions,
\* or owns the targeted resource.
C10_OwnershipOrPermission ==
    (/\ req.handler = "requireOwnershipOrPermission"
     /\ req.attached
     /\ role.loaded
     /\ ~req.populateFails)
    => (out.next <=>
          \/ IsSuperAdmin
          \/ \E n \in Range(req.adminPermissions) : n \in EffectiveNames
          \/ /\ req.resourceId # NoResource
             /\ ResourceOwner(req.resourceId) = TheUser)

\* The request went through requirePermissions without the SuperAdmin
\* bypass applying.
BypassApplies == req.allowSuperAdmin /\ IsSuperAdmin
MissingNames == {n \in Range(req.permissions) : n \notin EffectiveNames}
PolicyHandlers == {"requirePermissions", "requireRoles", "requireOwnershipOrPermission"}

\* The outcome of the handler of req on the principal u.
Replay(u) ==
    CASE req.handler = "requirePermissions" ->
           requirePermissions(u, req.permissions, req.requireAll,
                              req.allowSuperAdmin, req.populateFails)
      [] req.handler = "requireRoles" -> requireRoles(u, req.roles)
      [] req.handler = "requireOwnershipOrPermission" ->
           requireOwnershipOrPermission(u, "author", req.adminPermissions,
                                        req.resourceId, req.populateFails)
      [] req.handler = "getProfile" -> getProfile(u)
      [] req.handler = "hasPermission" ->
           [Called(NoOutcome, "getAllPermissions")
              EXCEPT !.has = hasPermission(u, req.permissionName)]

\* The principal of req with the isActive flag of its role set to b.
WithRoleActive(b) ==
    [Principal(req.attached) EXCEPT !.role = [role EXCEPT !.isActive = b]]

ResolvingHandlers == PolicyHandlers \cup {"getProfile", "hasPermission"}

\* C18: the isActive flag of a role has no effect on authorization: the
\* resolver, requirePermissions, requireRoles and the ownership policy
\* give a principal with an inactive role the outcome they give the same
\* principal with the role active.
C18_RoleActivityIgnored ==
    req.handler \in ResolvingHandlers
    => /\ out = Replay(WithRoleActive(TRUE))
       /\ out = Replay(WithRoleActive(FALSE))
       /\ req.handler = "getProfile" =>
            {out.permissions[i].id : i \in 1..Len(out.permissions)} = EffectiveIds

\* A principal whose only source of the required permission is a custom
\* role that is not active is admitted.
C18_Witness ==
    /\ req.handler = "requirePermissions"
    /\ req.attached
    /\ ~role.isActive /\ role.loaded /\ ~role.isSystemRole
    /\ granted = <<>> /\ revoked = <<>>
    /\ Len(req.permissions) = 1
    /\ req.permissions[1] \in EffectiveNames
    /\ out.next

\* C11: requirePermissions, requireRoles and requireOwnershipOrPermission
\* answer a request that carries no principal with 401, never 403, and
\* neither resolve permissions nor call next.
C11_AnonymousIs401 ==
    (req.handler \in PolicyHandlers /\ ~req.attached)
    => /\ out.status = 401
       /\ ~out.next
       /\ out.calls = {}

\* An anonymous request to a role policy whose list names the role the
\* stored user has: still 401.
C11_Witness ==
    /\ req.handler = "requireRoles"
    /\ ~req.attached
    /\ role.loaded /\ role.name \in Range(req.roles)
    /\ out.status = 401
    /\ ~out.next

\* C14: when the principal's role did not load, resolving its permissions
\* signals a failure: the request is answered with an internal error and
\* is not served as though the role had no permissions.
C14_MissingRoleSignalled ==
    (/\ req.handler \in {"requirePermissions", "getProfile"}
     /\ req.attached
     /\ ~role.loaded)
    => /\ ~out.next
       /\ out.status >= 500

\* C15: every admission by requirePermissions leaves a permissionCheck
\* record with the required permissions and the permissions held.
C15_AdmissionLeavesRecord ==
    (req.handler = "requirePermissions" /\ out.next)
    => /\ out.permissionCheck.accessGranted
       /\ out.permissionCheck.requiredPermissions = req.permissions
       /\ Range(out.permissionCheck.userPermissions) = EffectiveNames

\* C15 as the code has it: an admission that resolved the permissions
\* leaves the record, with the required list and the names held; an
\* admission through the SuperAdmin bypass leaves none.
C15_ResolvedAdmissionLeavesRecord ==
    (req.handler = "requirePermissions" /\ out.next)
    => IF BypassApplies
       THEN out.permissionCheck = NoPermissionCheck
       ELSE /\ out.permissionCheck.accessGranted
            /\ out.permissionCheck.requiredPermissions = req.permissions
            /\ Range(out.permissionCheck.userPermissions) = EffectiveNames

\* An any-of admission of a principal that holds one of two required
\* permissions, with both lists recorded.
C15_Witness ==
    /\ req.handler = "requirePermissions"
    /\ out.next
    /\ ~BypassApplies
    /\ Len(req.permissions) = 2
    /\ MissingNames # {}
    /\ out.permissionCheck.accessGranted
    /\ out.permissionCheck.requiredPermissions = req.permissions
    /\ Len(out.permissionCheck.userPermissions) > 0

\* C16: the list a 403 of requirePermissions reports is the set of
\* required permissions that are not effective, with and without
\* requireAll.
C16_DenialNamesMissing ==
    (req.handler = "requirePermissions" /\ out.status = 403)
    => Range(out.requiredPermissions) = MissingNames

\* C16 as the code has it: the 403 reports the whole required list and the
\* names held, so the missing permissions are the reported required ones
\* that are not among the reported held ones; without requireAll the
\* required list is the missing set itself.
C16_DenialNamesRequiredAndHeld ==
    (req.handler = "requirePermissions" /\ out.status = 403)
    => /\ out.requiredPermissions = req.permissions
       /\ Range(out.userPermissions) = EffectiveNames
       /\ MissingNames # {} \/ (~req.requireAll /\ req.permissions = <<>>)
       /\ MissingNames = Range(out.requiredPermissions) \ Range(out.userPermissions)
       /\ ~req.requireAll => Range(out.requiredPermissions) = MissingNames

\* A requireAll denial of a principal that holds the first of two
\* required permissions: the report lists both.
C16_Witness ==
    /\ req.handler = "requirePermissions"
    /\ out.status = 403
    /\ req.requireAll
    /\ Len(req.permissions) = 2
    /\ req.permissions[1] \in EffectiveNames
    /\ req.permissions[2] \notin EffectiveNames
    /\ Len(out.requiredPermissions) = 2

---------------------------------------------------------------------------
\* Properties of the custom permission overrides (SpecOverrides). req.doc
\* holds the granted and revoked lists as the handler loaded them.

GrantDone == req.handler = "grantCustomPermissions" /\ out.status = 200
RevokeDone == req.handler = "revokeCustomPermissions" /\ out.status = 200
\* The permissions the body of req names, whatever their spelling.
BodyPermissions == {CastObjectId(req.permissions[i]) : i \in 1..Len(req.permissions)}

\* C12: no permission is both granted and revoked after any sequence of
\* grant, revoke and remove requests; a successful grant of X leaves X
\* granted, not revoked and effective, a revoke of X leaves X revoked and
\* not granted.
C12_GrantedRevokedDisjoint ==
    /\ Range(granted) \cap Range(revoked) = {}
    /\ GrantDone =>
         \A X \in BodyPermissions :
            X \in Range(granted) /\ X \notin Range(revoked) /\ X \in EffectiveIds
    /\ RevokeDone =>
         \A X \in BodyPermissions : X \in Range(revoked) /\ X \notin Range(granted)

\* C13: revoke dominates grant in either order: X is not effective after
\* a revoke of X, and not effective after a grant of X that found X
\* revoked.
C13_RevokeDominatesAnyOrder ==
    /\ RevokeDone => \A X \in BodyPermissions : X \notin EffectiveIds
    /\ GrantDone =>
         \A X \in BodyPermissions :
            X \in Range(req.doc.revoked) => X \notin EffectiveIds

\* C13 as the code has it: X is not effective after a revoke of X,
\* whatever was granted before. A successful grant of X that finds X
\* revoked clears the revocation and makes X effective when the body
\* spells the id as stored; spelled otherwise, X is granted and stays
\* revoked, hence not effective.
C13_LaterGrantDecides ==
    /\ RevokeDone => \A X \in BodyPermissions : X \notin EffectiveIds
    /\ GrantDone =>
         \A X \in BodyPermissions :
            /\ X \in Range(granted)
            /\ X \in Range(req.doc.revoked) =>
                 (X \in EffectiveIds <=> X \in Range(req.permissions))

\* A grant, by its stored spelling, of a permission that a revoke had
\* taken from the user, who holds it again.
C13_Witness ==
    /\ GrantDone
    /\ \E X \in BodyPermissions :
          /\ X \in Range(req.doc.revoked)
          /\ X \notin Range(req.doc.granted)
          /\ X \in Range(req.permissions)
          /\ X \notin RolePermissionIds
          /\ X \in EffectiveIds

---------------------------------------------------------------------------
\* Properties of the catalog (SpecCatalog).

\* C19: every permission id that a role's permissions, the granted list
\* or the revoked list of a user holds is the id of an existing
\* permission, after any sequence of permission, role and override
\* requests.
C19_ReferencesExist ==
    /\ \A r \in ExistingRoles : Range(roleDocs[r].permissions) \subseteq ExistingPermissions
    /\ Range(granted) \subseteq ExistingPermissions
    /\ Range(revoked) \subseteq ExistingPermissions

---------------------------------------------------------------------------
\* Properties of the users' role references (SpecRoles).

\* C20: every user holds exactly one role and that role exists, after any
\* sequence of register, createUser, assignRole, createRole and deleteRole
\* requests; a deleteRole on a role that a user holds is refused.
C20_EveryUserHoldsAnExistingRole ==
    /\ \A u \in UserIds :
          userDocs[u].state = "exists" =>
            /\ userDocs[u].role # NoRoleId
            /\ roleDocs[userDocs[u].role].state = "exists"
    /\ (req.handler = "deleteRole" /\ req.id \in RoleIds) =>
          ((\E u \in UserIds : userDocs[u].state = "exists" /\ userDocs[u].role = req.id)
             => out.status # 200)

\* The deletion of a custom role that a user holds, refused with 400, the
\* role still there.
C20_Witness ==
    /\ req.handler = "deleteRole"
    /\ req.id \in RoleIds
    /\ ~roleDocs[req.id].isSystemRole
    /\ roleDocs[req.id].state = "exists"
    /\ \E u \in UserIds : userDocs[u].state = "exists" /\ userDocs[u].role = req.id
    /\ out.status = 400

---------------------------------------------------------------------------
\* Properties of the lockout state machine and of the session validator
\* (SpecSession). req.doc holds the security fields the handler loaded,
\* req.at the time of its isLocked check, req.at2 the time at which
\* incLoginAttempts ran.

\* The request was a login that reached the password comparison and failed.
WrongPasswordLogin ==
    /\ req.handler = "login"
    /\ req.wellFormed /\ req.found /\ ~req.passwordCorrect
    /\ req.doc.isActive
    /\ ~(req.doc.lockUntil # NoLock /\ req.doc.lockUntil > req.at)

\* C4: a failed login on an account with no lock raises loginAttempts by
\* exactly one; no lock is set while the count is below maxAttempts, the
\* failure that reaches maxAttempts sets lockUntil to now + the lock
\* duration, and loginAttempts is never at maxAttempts or above without a
\* lock.
C4_FailuresCountAndLock ==
    /\ (WrongPasswordLogin /\ req.doc.lockUntil = NoLock) =>
          /\ loginAttempts = req.doc.loginAttempts + 1
          /\ loginAttempts < MaxAttempts => lockUntil = NoLock
          /\ loginAttempts >= MaxAttempts => lockUntil = req.at2 + LockTime
    /\ loginAttempts >= MaxAttempts => lockUntil # NoLock

\* The fifth failure in a row: the count went from 4 to 5 and the lock is set.
C4_Witness ==
    /\ WrongPasswordLogin
    /\ req.doc.lockUntil = NoLock
    /\ req.doc.loginAttempts = MaxAttempts - 1
    /\ loginAttempts = MaxAttempts
    /\ lockUntil = req.at2 + LockTime

\* C5: a login made while the account is locked is rejected before the
\* password is compared, whatever the password, and leaves loginAttempts
\* and lockUntil as they were.
C5_LockedLoginRejected ==
    (/\ req.handler = "login"
     /\ req.wellFormed /\ req.found
     /\ req.doc.lockUntil # NoLock /\ req.at < req.doc.lockUntil)
    => /\ out.status = 423
       /\ out.user = NoUser
       /\ "comparePassword" \notin out.calls
       /\ loginAttempts = req.doc.loginAttempts
       /\ lockUntil = req.doc.lockUntil

\* The right password, given while locked, was turned away.
C5_Witness ==
    /\ req.handler = "login"
    /\ req.wellFormed /\ req.found /\ req.passwordCorrect
    /\ req.doc.isActive
    /\ req.doc.lockUntil # NoLock /\ req.at < req.doc.lockUntil
    /\ out.status = 423
    /\ loginAttempts = MaxAttempts

\* C6: a failed login at any time now >= lockUntil, the instant
\* now = lockUntil included, clears the lock and sets loginAttempts to 1.
C6_ExpiredLockRestartsAtOne ==
    (/\ WrongPasswordLogin
     /\ req.doc.lockUntil # NoLock
     /\ req.at2 >= req.doc.lockUntil)
    => /\ loginAttempts = 1
       /\ lockUntil = NoLock

\* C7: after a successful login the stored state is loginAttempts = 0 and
\* no lockUntil, whatever the count and the expired lock were before.
C7_SuccessResets ==
    (/\ req.handler = "login"
     /\ req.wellFormed /\ req.found /\ req.passwordCorrect
     /\ req.doc.isActive
     /\ ~(req.doc.lockUntil # NoLock /\ req.doc.lockUntil > req.at))
    => /\ out.status = 200
       /\ loginAttempts = 0
       /\ lockUntil = NoLock

\* A successful login on an account that had reached the threshold and
\* whose lock had expired.
C7_Witness ==
    /\ req.handler = "login"
    /\ req.passwordCorrect
    /\ out.status = 200
    /\ req.doc.loginAttempts >= MaxAttempts
    /\ req.doc.lockUntil # NoLock
    /\ req.doc.lockUntil <= req.at
    /\ loginAttempts = 0
    /\ lockUntil = NoLock

\* The five failure kinds of the session validator and the message
\* authenticate answers each with.
AuthFailureKinds ==
    {"CredentialExpired", "CredentialInvalid", "PrincipalNotFound",
     "AccountDeactivated", "AccountLocked"}
AuthFailureMessage(kind) ==
    CASE kind = "CredentialExpired" ->
           authenticate("expired", FALSE, TRUE, NoLock, 0).message
      [] kind = "CredentialInvalid" ->
           authenticate("invalid", FALSE, TRUE, NoLock, 0).message
      [] kind = "PrincipalNotFound" ->
           authenticate("validUnknownUser", FALSE, TRUE, NoLock, 0).message
      [] kind = "AccountDeactivated" ->
           authenticate("valid", TRUE, FALSE, NoLock, 0).message
      [] kind = "AccountLocked" ->
           authenticate("valid", TRUE, TRUE, LockTime, 0).message
\* The failure kinds that apply to the request just validated.
AuthFailuresOfRequest ==
    {k \in AuthFailureKinds :
        \/ k = "CredentialExpired" /\ req.token = "expired"
        \/ k = "CredentialInvalid" /\ req.token = "invalid"
        \/ k = "PrincipalNotFound" /\ req.token = "validUnknownUser"
        \/ k = "AccountDeactivated" /\ req.token = "valid" /\ ~req.doc.isActive
        \/ k = "AccountLocked" /\ req.token = "valid"
             /\ req.doc.lockUntil # NoLock /\ req.doc.lockUntil > req.at}

\* C8: authenticate attaches a principal and calls next only when the token
\* verifies and the user exists, is active and is not locked; each of the
\* five failures is answered 401, with a message of its own.
C8_AuthenticateFailures ==
    req.handler = "authenticate" =>
      LET admitted == req.token = "valid" /\ AuthFailuresOfRequest = {}
      IN /\ out.next <=> admitted
         /\ (out.user = TheUser) <=> admitted
         /\ AuthFailuresOfRequest # {} =>
              /\ out.status = 401
              /\ \E k \in AuthFailuresOfRequest : out.message = AuthFailureMessage(k)
         /\ \A k1, k2 \in AuthFailureKinds :
              k1 # k2 => AuthFailureMessage(k1) # AuthFailureMessage(k2)

\* A valid token of an active, locked user answered 401.
C8_Witness ==
    /\ req.handler = "authenticate"
    /\ req.token = "valid"
    /\ req.doc.isActive
    /\ req.doc.lockUntil # NoLock /\ req.doc.lockUntil > req.at
    /\ out.status = 401
    /\ ~out.next

\* The answer to a failed login that does not lock the account: the first
\* wrong password on an account with no failure recorded.
NonLockingFailure == login(TRUE, TRUE, FALSE, TRUE, 0, NoLock, 0, 0).out

\* C17: the failed login that locks the account is answered differently
\* from a failed login that does not lock it.
C17_LockingFailureIsVisible ==
    (/\ WrongPasswordLogin
     /\ req.doc.lockUntil = NoLock
     /\ lockUntil # NoLock)
    => \/ out.status # NonLockingFailure.status
       \/ out.message # NonLockingFailure.message

\* The request reached the resolver: an authenticated principal that is not
\* let through as SuperAdmin, and, in requireOwnershipOrPermission, a
\* non-empty list of override permissions.
ResolverReached ==
    /\ req.handler \in {"requirePermissions", "requireOwnershipOrPermission"}
    /\ req.attached
    /\ IF req.handler = "requirePermissions"
       THEN ~(req.allowSuperAdmin /\ role.loaded /\ role.name = "SuperAdmin")
       ELSE /\ ~(role.loaded /\ role.name = "SuperAdmin")
            /\ Len(req.adminPermissions) > 0

\* C24: when resolving the principal's permissions fails inside
\* requirePermissions or requireOwnershipOrPermission, the request is
\* answered 500 and is not passed on: no fault path ends in admission.
C24_FaultNeverAdmits ==
    (ResolverReached /\ req.populateFails)
    => /\ out.status = 500
       /\ ~out.next
       /\ out.permissionCheck = NoPermissionCheck
       /\ out.requireOwnershipCheck = NoOwnershipCheck

\* The resolver failed inside requireOwnershipOrPermission on a request
\* naming a resource, and the request was answered 500.
C24_Witness ==
    /\ ResolverReached
    /\ req.handler = "requireOwnershipOrPermission"
    /\ req.populateFails
    /\ req.resourceId # NoResource
    /\ out.status = 500

\* C23: optionalAuth never rejects: it always calls next() and sends no
\* response, and it attaches the principal exactly when the token verifies,
\* no internal error occurred, and the user exists, is active and is not
\* locked at that time.
C23_OptionalAuthNeverRejects ==
    req.handler = "optionalAuth"
    => /\ out.next
       /\ out.status = 0
       /\ out.user \in {TheUser, NoUser}
       /\ (out.user = TheUser) <=>
            /\ req.token = "valid"
            /\ ~req.fault
            /\ req.doc.isActive
            /\ ~(req.doc.lockUntil # NoLock /\ req.doc.lockUntil > req.at)

\* A valid token of an active, locked user: passed on as anonymous.
C23_Witness ==
    /\ req.handler = "optionalAuth"
    /\ req.token = "valid"
    /\ ~req.fault
    /\ req.doc.isActive
    /\ req.doc.lockUntil # NoLock /\ req.doc.lockUntil > req.at
    /\ out.next
    /\ out.user = NoUser

SessionRoutes == {"GET /api/auth/profile", "GET /api/posts"}

\* The user document the request loaded is deactivated, or locked at the
\* time of the request.
DeactivatedOrLocked ==
    \/ ~req.doc.isActive
    \/ req.doc.lockUntil # NoLock /\ req.doc.lockUntil > req.at

\* C26: a request of the session path whose principal is deactivated or
\* locked never reaches the resolver: behind authenticate it is answered 401
\* (account deactivated, for a verified token of a deactivated user) before
\* the controller runs, and behind optionalAuth it is served with no
\* principal attached.
C26_NoResolveForDeactivatedOrLocked ==
    (req.handler \in SessionRoutes /\ DeactivatedOrLocked)
    => /\ out.calls = {}
       /\ out.user = NoUser
       /\ req.handler = "GET /api/auth/profile" =>
            /\ out.status = 401
            /\ (req.token = "valid" /\ ~req.doc.isActive) =>
                 out.message = "Access denied. Account is deactivated."

\* The profile route asked with the valid token of a deactivated user.
C26_Witness ==
    /\ req.handler = "GET /api/auth/profile"
    /\ req.token = "valid"
    /\ ~req.doc.isActive
    /\ out.status = 401
    /\ out.calls = {}

\* C29: the lockout machine has no terminal state: whenever failures are
\* recorded or a lock is set on the active account, time passing and the
\* owner logging in with the correct password bring the account back to
\* loginAttempts = 0 with no lock.
C29_LockAlwaysEnds ==
    (loginAttempts > 0 \/ lockUntil # NoLock)
      ~> (loginAttempts = 0 /\ lockUntil = NoLock)

\* A login with the correct password on an account whose second lock has
\* expired succeeded and cleared the security state.
C29_Witness ==
    /\ req.handler = "login"
    /\ req.passwordCorrect
    /\ req.doc.lockUntil > LockTime + 1
    /\ req.doc.lockUntil <= req.at
    /\ req.doc.loginAttempts >= MaxAttempts
    /\ out.status = 200
    /\ loginAttempts = 0
    /\ lockUntil = NoLock

\* Both logins in flight have been answered.
BothLoginsDone ==
    /\ req.handler = "login, login"
    /\ \A l \in Logins : req.pc[l] = "done"

\* C25: two concurrent failed logins on the same account end as if run one
\* after the other: when both were answered 401 on an account that had no
\* lock, the count went up by two, and an account whose count has reached
\* MaxAttempts is locked.
C25_ConcurrentFailuresAsSequential ==
    BothLoginsDone
    => /\ (/\ req.start.lockUntil = NoLock
           /\ \A l \in Logins : out[l].status = 401)
          => loginAttempts = req.start.loginAttempts + 2
       /\ loginAttempts >= MaxAttempts => lockUntil # NoLock

\* The users holding the SuperAdmin role.
SuperAdmins ==
    {u \in UserIds : /\ userDocs[u].state = "exists"
                     /\ userDocs[u].role \in RoleIds
                     /\ roleDocs[userDocs[u].role].name = "SuperAdmin"}

\* C28: whatever the interleaving of registrations, at most one user gets
\* the SuperAdmin role through register.
C28_OneSuperAdminByRegistration ==
    req.handler = "registrations" => Cardinality(SuperAdmins) <= 1

\* The caller of the request is not a SuperAdmin.
CallerNotSuperAdmin ==
    \/ ~req.caller.attached
    \/ ~req.caller.role.loaded
    \/ req.caller.role.name # "SuperAdmin"

\* C21: updateRole, deleteRole and removePermissionsFromRole asked by a
\* caller that is not SuperAdmin on a system role are rejected and leave the
\* role's name, existence and permission list as they were.
C21_SystemRoleProtected ==
    (/\ req.handler \in {"updateRole", "deleteRole", "removePermissionsFromRole"}
     /\ CallerNotSuperAdmin
     /\ req.doc.state = "exists"
     /\ req.doc.isSystemRole)
    => /\ out.status >= 400
       /\ roleDocs[req.id].state = "exists"
       /\ roleDocs[req.id].name = req.doc.name
       /\ roleDocs[req.id].permissions = req.doc.permissions

\* A manager holding role.update asked to take a permission the system role
\* has away from it, and was answered 403.
C21_Witness ==
    /\ req.handler = "removePermissionsFromRole"
    /\ req.caller.role.name = "Manager"
    /\ req.caller.revoked = <<>>
    /\ req.doc.isSystemRole
    /\ \E i \in 1..Len(req.permissions) :
          \E j \in 1..Len(req.doc.permissions) : req.permissions[i] = req.doc.permissions[j]
    /\ out.status = 403
    /\ out.message = "Only SuperAdmin can modify system roles"

\* The names of the permissions the caller of the request holds.
CallerNames ==
    IF req.caller.attached /\ req.caller.role.loaded
    THEN {PermName(p) : p \in (Range(req.caller.role.permissions)
                                 \cup Range(req.caller.granted))
                                \ Range(req.caller.revoked)}
    ELSE {}

\* The caller is authenticated and is SuperAdmin or holds one of the user
\* management permissions.
CallerMayManageUsers ==
    /\ req.caller.attached
    /\ \/ req.caller.role.loaded /\ req.caller.role.name = "SuperAdmin"
       \/ CallerNames \cap {"user.create", "user.update", "user.delete"} # {}

OverrideHandlers ==
    {"grantCustomPermissions", "revokeCustomPermissions", "removeCustomPermissions"}

\* C22: a grant, revoke or remove request of a caller that is not
\* authenticated, or is neither SuperAdmin nor holder of one of user.create,
\* user.update, user.delete, is answered 401 or 403 and leaves granted and
\* revoked as they were; the lists change only on the request of a caller
\* that may manage users.
C22_OverridesNeedUserManagement ==
    req.handler \in OverrideHandlers
    => /\ ~CallerMayManageUsers =>
            /\ out.status = (IF req.caller.attached THEN 403 ELSE 401)
            /\ granted = req.doc.granted
            /\ revoked = req.doc.revoked
       /\ (granted # req.doc.granted \/ revoked # req.doc.revoked) =>
            /\ CallerMayManageUsers
            /\ out.status = 200

\* A manager whose management permissions are revoked asked for a grant
\* that would have been accepted, and was answered 403.
C22_Witness ==
    /\ req.handler = "grantCustomPermissions"
    /\ req.caller.role.name = "Manager"
    /\ req.caller.revoked # <<>>
    /\ req.id = TheUser
    /\ req.permissions = <<"p1">>
    /\ req.doc.granted = <<>>
    /\ out.status = 403
    /\ granted = <<>>

\* C30: no assignRole or createUser request of a caller that is not
\* SuperAdmin succeeds leaving the user it names with the SuperAdmin role.
C30_OnlySuperAdminGivesSuperAdmin ==
    (/\ req.handler \in {"assignRole", "createUser"}
     /\ CallerNotSuperAdmin
     /\ out.status \in {200, 201})
    => req.id \notin SuperAdmins

\* The permission names the stored data gives the user of the request now:
\* the list of the role the user holds and the user's overrides.
StoredNames ==
    LET held == IF userDocs[req.user].role \in RoleIds
                THEN Range(roleDocs[userDocs[req.user].role].permissions)
                ELSE {}
        plus == IF req.user = TheUser THEN Range(granted) ELSE {}
        minus == IF req.user = TheUser THEN Range(revoked) ELSE {}
    IN {PermName(p) : p \in (held \cup plus) \ minus}

\* C27: the decision on a request is the one the stored role list and
\* overrides give at the time of the request, for each user holding the
\* role, whatever was resolved for earlier requests.
C27_DecidedFromStoredSets ==
    req.handler = "authenticate, requirePermissions"
    => /\ out.next <=>
            IF req.requireAll
            THEN \A n \in Range(req.permissions) : n \in StoredNames
            ELSE \E n \in Range(req.permissions) : n \in StoredNames
       /\ ~out.next => Range(out.userPermissions) = StoredNames

\* The second user, who has no override, was admitted on post.delete, which
\* the role did not hold at first.
C27_Witness ==
    /\ req.handler = "authenticate, requirePermissions"
    /\ req.user = "u2"
    /\ req.permissions = <<"post.delete">>
    /\ out.next

=============================================================================
